---- MODULE Spec2Model ----
(***************************************************************************)
(* Model of reml, the release orchestrator of src/reml/project.py, with    *)
(* the per-project policies of lttngtools.py, babeltrace2.py and           *)
(* babeltrace1.py.                                                         *)
(*                                                                         *)
(* Python strings are sequences of one-character strings.  A Python value  *)
(* that may be an int or a str (Version.major / Version.minor) is a        *)
(* record [t, n, s]; the absent rc (Python None) is the integer -1.        *)
(***************************************************************************)
EXTENDS Integers, Sequences, FiniteSets, TLC

(***************************************************************************)
(* Bounds of the model.                                                    *)
(***************************************************************************)
MaxPatch == 2
MaxRc == 2

(***************************************************************************)
(* Python values and strings.                                              *)
(***************************************************************************)
None == -1

PyInt(n) == [t |-> "int", n |-> n, s |-> <<>>]
PyStr(s) == [t |-> "str", n |-> 0, s |-> s]

DigitChars == <<"0", "1", "2", "3", "4", "5", "6", "7", "8", "9">>

IsDigit(c) == \E i \in 1..10 : DigitChars[i] = c

DigitVal(c) == (CHOOSE i \in 1..10 : DigitChars[i] = c) - 1

\* str(n) for a non-negative int
RECURSIVE ToStr(_)
ToStr(n) == IF n < 10 THEN <<DigitChars[n + 1]>>
            ELSE ToStr(n \div 10) \o <<DigitChars[(n % 10) + 1]>>

\* value of a non-empty run of decimal digits
RECURSIVE DigitsToNat(_)
DigitsToNat(s) == IF Len(s) = 0 THEN 0
                  ELSE 10 * DigitsToNat(SubSeq(s, 1, Len(s) - 1)) + DigitVal(s[Len(s)])

AllDigits(s) == \A i \in 1..Len(s) : IsDigit(s[i])

\* int(s): an optional sign followed by at least one digit, ValueError otherwise
IntOk(s) == LET body == IF Len(s) > 0 /\ s[1] \in {"+", "-"} THEN Tail(s) ELSE s
            IN  Len(body) > 0 /\ AllDigits(body)

IntOf(s) == IF Len(s) > 0 /\ s[1] = "-" THEN 0 - DigitsToNat(Tail(s))
            ELSE IF Len(s) > 0 /\ s[1] = "+" THEN DigitsToNat(Tail(s))
            ELSE DigitsToNat(s)

\* s.split(".")
RECURSIVE SplitFrom(_, _, _)
SplitFrom(s, i, cur) ==
    IF i > Len(s) THEN <<cur>>
    ELSE IF s[i] = "." THEN <<cur>> \o SplitFrom(s, i + 1, <<>>)
    ELSE SplitFrom(s, i + 1, Append(cur, s[i]))

Split(s) == SplitFrom(s, 1, <<>>)

\* the regular expression \d* matched greedily at position i: the position after the run
RECURSIVE DigitRun(_, _)
DigitRun(s, i) == IF i <= Len(s) /\ IsDigit(s[i]) THEN DigitRun(s, i + 1) ELSE i

\* the literal lit matched at position i
LitAt(s, i, lit) ==
    /\ i + Len(lit) - 1 <= Len(s)
    /\ \A k \in 1..Len(lit) : s[i + k - 1] = lit[k]

\* the regular expression $: the end of the string, or just before a final newline
AtEnd(s, i) == i = Len(s) + 1 \/ (i = Len(s) /\ s[i] = "\n")

(***************************************************************************)
(* Version                                                                 *)
(***************************************************************************)
Version(major, minor, patch, rc) ==
    [major |-> major, minor |-> minor, patch |-> patch, rc |-> rc]

NoVersion == Version(PyStr(<<>>), PyStr(<<>>), None, None)

Render(v) == IF v.t = "int" THEN ToStr(v.n) ELSE v.s

\* Version.__str__: the rc is appended only when it is truthy
VersionStr(v) ==
    Render(v.major) \o <<".">> \o Render(v.minor) \o <<".">> \o ToStr(v.patch)
    \o (IF v.rc # None /\ v.rc # 0 THEN <<"-", "r", "c">> \o ToStr(v.rc) ELSE <<>>)

VersionSeries(v) == Render(v.major) \o <<".">> \o Render(v.minor)

TagFromVersion(v) == <<"v">> \o VersionStr(v)

BranchNameFromSeries(series) == <<"s", "t", "a", "b", "l", "e", "-">> \o series


(***************************************************************************)
(* Parsing of tags and series (Project._version_from_tag and               *)
(* Project._version_from_series).  A parse result is [err, v]; err is      *)
(* "none" or the name of the exception raised.                             *)
(***************************************************************************)
Ok(v) == [err |-> "none", v |-> v]
Raise(e) == [err |-> e, v |-> NoVersion]

\* positions of the match of v(\d*)\.(\d*)\.(\d*) at the start of tag_name
TagSpans(tag_name) ==
    LET a == DigitRun(tag_name, 2)
        b == DigitRun(tag_name, a + 1)
        c == DigitRun(tag_name, b + 1)
    IN  [a |-> a, b |-> b, c |-> c,
         ok |-> /\ LitAt(tag_name, 1, <<"v">>)
                /\ LitAt(tag_name, a, <<".">>)
                /\ LitAt(tag_name, b, <<".">>)]

\* exp.match(tag_name): v(\d*)\.(\d*)\.(\d*)$
ExpMatches(tag_name) ==
    LET m == TagSpans(tag_name) IN m.ok /\ AtEnd(tag_name, m.c)

\* exp_rc.match(tag_name): v(\d*)\.(\d*)\.(\d*)-rc(\d*), not anchored at the end
ExpRcMatches(tag_name) ==
    LET m == TagSpans(tag_name) IN m.ok /\ LitAt(tag_name, m.c, <<"-", "r", "c">>)

VersionFromTag(tag_name) ==
    LET m == TagSpans(tag_name)
        major == SubSeq(tag_name, 2, m.a - 1)
        minor == SubSeq(tag_name, m.a + 1, m.b - 1)
        patch == SubSeq(tag_name, m.b + 1, m.c - 1)
        d == DigitRun(tag_name, m.c + 3)
        rcs == SubSeq(tag_name, m.c + 3, d - 1)
    IN  IF ExpMatches(tag_name)
        THEN IF IntOk(major) /\ IntOk(minor) /\ IntOk(patch)
             THEN Ok(Version(PyInt(IntOf(major)), PyInt(IntOf(minor)), IntOf(patch), None))
             ELSE Raise("ValueError")
        ELSE IF ~ExpRcMatches(tag_name)
        THEN Raise("UnexpectedTagNameError")
        ELSE IF IntOk(major) /\ IntOk(minor) /\ IntOk(patch) /\ IntOk(rcs)
             THEN Ok(Version(PyInt(IntOf(major)), PyInt(IntOf(minor)), IntOf(patch), IntOf(rcs)))
             ELSE Raise("ValueError")

\* (\d*)\.(\d*) matched at the start of series; major and minor stay strings
VersionFromSeries(series) ==
    LET a == DigitRun(series, 1)
        b == DigitRun(series, a + 1)
    IN  IF LitAt(series, a, <<".">>)
        THEN Ok(Version(PyStr(SubSeq(series, 1, a - 1)), PyStr(SubSeq(series, a + 1, b - 1)), 0, None))
        ELSE Raise("InvalidReleaseSeriesError")

(***************************************************************************)
(* Project policies: the series validators of the three projects.          *)
(***************************************************************************)
LTTngTools_is_release_series_valid(series) ==
    LET tokenized_version == Split(series)
    IN  IF Len(tokenized_version) # 2 THEN FALSE
        ELSE IF ~IntOk(tokenized_version[1]) THEN FALSE
        ELSE IF IntOf(tokenized_version[1]) # 2 THEN FALSE
        ELSE TRUE

Babeltrace2_is_release_series_valid(series) ==
    LET tokenized_version == Split(series)
    IN  IF Len(tokenized_version) # 2 THEN FALSE
        ELSE IF ~IntOk(tokenized_version[1]) THEN FALSE
        ELSE IF IntOf(tokenized_version[1]) # 2 THEN FALSE
        ELSE TRUE

Babeltrace1_is_release_series_valid(series) ==
    LET tokenized_version == Split(series)
    IN  IF Len(tokenized_version) # 2 THEN FALSE
        ELSE IF ~IntOk(tokenized_version[1]) THEN FALSE
        ELSE IF IntOf(tokenized_version[1]) # 1 THEN FALSE
        ELSE TRUE

Projects == {"lttng-tools", "babeltrace2", "babeltrace1"}

\* self._is_release_series_valid(series) of the project class the CLI selected
IsReleaseSeriesValid(proj, series) ==
    IF proj = "lttng-tools" THEN LTTngTools_is_release_series_valid(series)
    ELSE IF proj = "babeltrace2" THEN Babeltrace2_is_release_series_valid(series)
    ELSE Babeltrace1_is_release_series_valid(series)

(***************************************************************************)
(* Version resolution of Project.release.                                  *)
(***************************************************************************)
ReleaseTypes == {"STABLE", "RELEASE_CANDIDATE"}

\* NextVersion with the patch of the release candidate kept on a stable release
NextVersion_KeepPatch(latest_version, release_type) ==
    IF release_type = "RELEASE_CANDIDATE"
    THEN IF latest_version.rc = None
         THEN Raise("TypeError")
         ELSE Ok(Version(latest_version.major, latest_version.minor, 0, latest_version.rc + 1))
    ELSE IF latest_version.rc # None
         THEN Ok(Version(latest_version.major, latest_version.minor, latest_version.patch, None))
         ELSE Ok(Version(latest_version.major, latest_version.minor, latest_version.patch + 1, None))

\* the existing-series bump; latest_version.rc + 1 is a TypeError when rc is None
NextVersion(latest_version, release_type) ==
    LET major == latest_version.major
    IN  IF release_type = "RELEASE_CANDIDATE"
        THEN IF latest_version.rc = None
             THEN Raise("TypeError")
             ELSE Ok(Version(major, latest_version.minor, 0, latest_version.rc + 1))
        ELSE IF latest_version.rc # None
             THEN Ok(Version(major, latest_version.minor, 0, None))
             ELSE Ok(Version(major, latest_version.minor, latest_version.patch + 1, None))

\* NewSeriesVersion returning the parsed series as it is, without the rc
NewSeriesVersion_NoRc(series, release_type) ==
    IF release_type # "RELEASE_CANDIDATE" THEN Raise("InvalidReleaseTypeError")
    ELSE VersionFromSeries(series)

\* NewSeriesVersion without the check of the release type
NewSeriesVersion_AnyType(series, release_type) ==
    LET r == VersionFromSeries(series)
    IN  IF r.err # "none" THEN r
        ELSE Ok(Version(r.v.major, r.v.minor, 0, 1))

\* the new-series target version
NewSeriesVersion(series, release_type) ==
    IF release_type # "RELEASE_CANDIDATE" THEN Raise("InvalidReleaseTypeError")
    ELSE LET r == VersionFromSeries(series)
         IN  IF r.err # "none" THEN r
             ELSE Ok(Version(r.v.major, r.v.minor, 0, 1))

(***************************************************************************)
(* Inputs of a run and of its environment.                                 *)
(***************************************************************************)
SeriesNames ==
    { <<"2", ".", "1", "3">>, <<"2", ".", "1", "4">>, <<"1", ".", "5">>,
      <<"3", ".", "0">>, <<"0", "2", ".", "1">>, <<"+", "2", ".", "1">>,
      <<"2", ".", "x">>, <<"2", ".">>, <<"2">>, <<"2", ".", "1", ".", "0">>,
      <<"a", "b", "c">>, <<".", "1">>, <<>> }

MkTag(major, minor, patch, rc) ==
    <<"v">> \o ToStr(major) \o <<".">> \o ToStr(minor) \o <<".">> \o ToStr(patch)
    \o (IF rc = None THEN <<>> ELSE <<"-", "r", "c">> \o ToStr(rc))

WellFormedTagNames ==
    { MkTag(ma, 13, p, rc) : ma \in {1, 2}, p \in 0..MaxPatch, rc \in {None} \cup 0..MaxRc }

MalformedTagNames ==
    { <<>>, <<"v", "2", ".", "1", "3">>, <<"2", ".", "1", "3", ".", "0">>,
      <<"v", "2", ".", "1", "3", ".", "x">>,
      <<"v", "2", ".", "1", "3", ".", "0", "-", "r", "c">>,
      <<"v", "2", ".", ".", "0">>,
      <<"v", "2", ".", "1", "3", ".", "1", "-", "r", "c", "1", "x">>,
      <<"v", "0", "2", ".", "1", "3", ".", "1">> }

TagNames == WellFormedTagNames \cup MalformedTagNames

\* the latest tag reachable from the default branch right after the clone
MasterTagNames == { MkTag(2, 13, 0, None), MkTag(2, 14, 0, 1) }

GithubUrlSets == { {}, {"gh1"}, {"gh1", "gh2"} }

BuildStatuses == {"SUCCESS", "UNSTABLE", "FAILURE", "ABORTED"}

(***************************************************************************)
(* State of one run of Project.release.                                    *)
(***************************************************************************)
VARIABLES
    project,            \* the project class selected by the CLI
    series,             \* release() arguments
    release_type,
    rebuild,
    dry,
    no_sign,
    reuse_last_build_artifacts,
    github_urls,        \* the configured git URLs that contain "github.com"
    origin_has_branch,  \* whether origin/stable-{series} exists upstream
    pc,                 \* position in release()
    result,             \* "running", "returned" or the exception that ended the run
    branch_exists,
    head_tag,           \* what git describe --abbrev=0 answers in the clone
    tag_reads,          \* number of calls of _latest_tag_name so far
    latest_version,
    release_version,
    path,               \* "none", "rebuild", "new" or "existing"
    publish_answer,     \* "unasked", "yes" or "no": the operator at the publish prompt
    hosted_releases,    \* hosted releases created: [url, prerelease, changelog]
    effects,            \* the external effects of the run, in order
    gh_existing,        \* targets found with a release for the target tag
    gh_answer,          \* "unasked", "yes" or "no": the operator at the hosted-release prompt
    run,                \* 1 for the first run, n + 1 for a run restarted after run n failed
    origin_tags,        \* the release tags pushed to origin by the runs, in order
    try_count,          \* the retry counter of the build-service call in progress
    attempts,           \* attempts made so far by the build-service call in progress
    polls,              \* polls made so far by the wait loop in progress
    build_status,       \* build_status["result"], "none" before build.poll()
    build_artifacts,    \* the filenames of build.get_artifacts(), in order
    artifact_name,      \* ReleaseArtifact._name, <<>> before the selection
    files,              \* the files of ReleaseArtifact._dir, as suffixes of _name
    cmd_runs,           \* failed runs so far of the command in progress
    abandoned,          \* the commands the operator declined to run again
    file_index,         \* position of the file loop in progress
    uploaded,           \* the files rsync copied to the upload location
    url_index,          \* position of the loop over urls in upload_to_github
    releases,           \* the releases list of upload_to_github
    assets,             \* per hosted target, per file, the assets of that name
    sent,               \* what upload_asset was given: [url, file, content]
    call,               \* the function called on its own, "none" inside a run
    arg,                \* its argument
    ret,                \* what it returned or raised: [err, b, v, s]
    commits,            \* the trees of the commits the run made in the clone, in order
    tag_commit          \* position in commits of the commit the run tagged, 0 if none

vars == << project, series, release_type, rebuild, dry, no_sign,
           reuse_last_build_artifacts, github_urls, origin_has_branch, pc, result,
           branch_exists, head_tag, tag_reads, latest_version, release_version,
           path, publish_answer, hosted_releases, effects, gh_existing, gh_answer,
           run, origin_tags, try_count, attempts, polls, build_status,
           build_artifacts, artifact_name, files, cmd_runs, abandoned, file_index,
           uploaded, url_index, releases, assets, sent, call, arg, ret, commits,
           tag_commit >>

\* what the run committed and tagged in its clone
repo == << commits, tag_commit >>

\* a function of the program called on its own, outside a run
calls == << call, arg, ret >>

NoCommits == commits = <<>> /\ tag_commit = 0

\* the state of _generate_artifact, ReleaseArtifact and its two uploads
stage == << try_count, attempts, polls, build_status, build_artifacts, artifact_name,
            files, cmd_runs, abandoned, file_index, uploaded, url_index, releases,
            assets, sent >>

inputs == << project, series, release_type, rebuild, dry, no_sign,
             reuse_last_build_artifacts, github_urls, origin_has_branch >>

\* the files ReleaseArtifact can hold: the tarball and what is written next to it
FileSuffixes == <<"", ".asc", ".md5", ".sha1", ".sha256">>

FileSet == { FileSuffixes[i] : i \in 1..Len(FileSuffixes) }

NoAssets == [f \in FileSet |-> 0]

\* nothing of the artifact stage has run
StageStart ==
    /\ try_count = None
    /\ attempts = 0
    /\ polls = 0
    /\ build_status = "none"
    /\ build_artifacts = <<>>
    /\ artifact_name = <<>>
    /\ files = {}
    /\ cmd_runs = 0
    /\ abandoned = {}
    /\ file_index = 0
    /\ uploaded = {}
    /\ url_index = 0
    /\ releases = <<>>
    /\ sent = {}

\* ret before the function has returned
NotReturned == [err |-> "pending", b |-> FALSE, v |-> NoVersion, s |-> <<>>]

NoCall ==
    /\ call = "none"
    /\ arg = <<>>
    /\ ret = NotReturned

StageInit ==
    /\ StageStart
    /\ assets = [u \in github_urls |-> NoAssets]

Init ==
    /\ project \in Projects
    /\ series \in SeriesNames
    /\ release_type \in ReleaseTypes
    /\ rebuild \in BOOLEAN
    /\ dry \in BOOLEAN
    /\ no_sign \in BOOLEAN
    /\ reuse_last_build_artifacts \in BOOLEAN
    /\ github_urls \in GithubUrlSets
    /\ origin_has_branch \in BOOLEAN
    /\ pc = "validate"
    /\ result = "running"
    /\ branch_exists = FALSE
    /\ head_tag = <<>>
    /\ tag_reads = 0
    /\ latest_version = NoVersion
    /\ release_version = NoVersion
    /\ path = "none"
    /\ publish_answer = "unasked"
    /\ hosted_releases = {}
    /\ effects = <<>>
    /\ gh_existing = {}
    /\ gh_answer = "unasked"
    /\ run = 1
    /\ origin_tags = <<>>
    /\ StageInit
    /\ NoCall
    /\ NoCommits

\* an exception leaves release(): the run is over
Fail(e) == pc' = "done" /\ result' = e

Goto(label) == pc' = label /\ result' = result

(***************************************************************************)
(* Steps 1 and 2: validate the series, clone, look for the branch.         *)
(***************************************************************************)
\* ValidateSeries without the test of the series
ValidateSeries_NoCheck ==
    /\ pc = "validate"
    /\ Goto("clone")
    /\ UNCHANGED << inputs, stage, calls, repo, run, origin_tags, gh_existing, gh_answer, branch_exists, head_tag, tag_reads, latest_version,
                    release_version, path, publish_answer, hosted_releases, effects >>

ValidateSeries ==
    /\ pc = "validate"
    /\ IF ~IsReleaseSeriesValid(project, series)
       THEN Fail("InvalidReleaseSeriesError")
       ELSE Goto("clone")
    /\ UNCHANGED << inputs, stage, calls, repo, run, origin_tags, gh_existing, gh_answer, branch_exists, head_tag, tag_reads, latest_version,
                    release_version, path, publish_answer, hosted_releases, effects >>

CloneRepo ==
    /\ pc = "clone"
    /\ effects' = Append(effects, "clone")
    /\ \E t \in MasterTagNames : head_tag' = t
    /\ branch_exists' = origin_has_branch
    /\ Goto("resolve")
    /\ UNCHANGED << inputs, stage, calls, repo, run, origin_tags, gh_existing, gh_answer, tag_reads, latest_version, release_version, path,
                    publish_answer, hosted_releases >>

(***************************************************************************)
(* Step 3: resolve the target version.                                     *)
(***************************************************************************)
\* LatestTagNames that forgets what the session pushed
LatestTagNames_Any == TagNames

\* what git describe --abbrev=0 can answer on the release branch: any tag name
\* on a branch this session has not pushed to, else the tag pushed last
LatestTagNames ==
    IF origin_tags = <<>> THEN TagNames ELSE { origin_tags[Len(origin_tags)] }

\* _set_current_branch with the create_branch flag inverted
SetCurrentBranch_Inverted(create_branch) ==
    IF create_branch THEN <<"checkout">> ELSE <<"branch_create">>

\* the effect of self._set_current_branch(branch_name, create_branch)
SetCurrentBranch(create_branch) ==
    IF create_branch THEN <<"branch_create">> ELSE <<"checkout">>

\* ResolvePath with the new-series test made before the rebuild test
ResolvePath_NewFirst(rebuild_flag, exists) ==
    IF ~exists THEN "new" ELSE IF rebuild_flag THEN "rebuild" ELSE "existing"

\* the branch of the if / elif / else that resolves the version
ResolvePath(rebuild_flag, exists) ==
    IF rebuild_flag THEN "rebuild" ELSE IF ~exists THEN "new" ELSE "existing"

\* AfterResolve without the test of the rebuild flag
AfterResolve_AlwaysMutate == "changelog"

\* after the version is resolved: gh login, then the mutate stage unless rebuilding
AfterResolve == IF rebuild THEN "github" ELSE "changelog"

ResolveRebuild ==
    /\ pc = "resolve"
    /\ ResolvePath(rebuild, branch_exists) = "rebuild"
    /\ path' = "rebuild"
    /\ IF ~branch_exists
       THEN /\ Fail("InvalidReleaseRebuildOptionError")
            /\ UNCHANGED << head_tag, tag_reads, release_version, effects >>
       ELSE \E latest_tag_name \in LatestTagNames :
              LET r == VersionFromTag(latest_tag_name)
              IN  /\ effects' = effects \o SetCurrentBranch(FALSE)
                  /\ head_tag' = latest_tag_name
                  /\ tag_reads' = tag_reads + 1
                  /\ IF r.err # "none"
                     THEN Fail(r.err) /\ UNCHANGED release_version
                     ELSE Goto(AfterResolve) /\ release_version' = r.v
    /\ UNCHANGED << inputs, stage, calls, repo, run, origin_tags, gh_existing, gh_answer, branch_exists, latest_version, publish_answer,
                    hosted_releases >>

ResolveNewSeries ==
    /\ pc = "resolve"
    /\ ResolvePath(rebuild, branch_exists) = "new"
    /\ path' = "new"
    /\ LET r == NewSeriesVersion(series, release_type)
       IN  IF r.err # "none"
           THEN Fail(r.err) /\ UNCHANGED release_version
           ELSE Goto(AfterResolve) /\ release_version' = r.v
    /\ UNCHANGED << inputs, stage, calls, repo, run, origin_tags, gh_existing, gh_answer, branch_exists, head_tag, tag_reads, latest_version,
                    publish_answer, hosted_releases, effects >>

ResolveExisting ==
    /\ pc = "resolve"
    /\ ResolvePath(rebuild, branch_exists) = "existing"
    /\ path' = "existing"
    /\ \E latest_tag_name \in LatestTagNames :
         LET r == VersionFromTag(latest_tag_name)
             n == NextVersion(r.v, release_type)
         IN  /\ effects' = effects \o SetCurrentBranch(FALSE)
             /\ head_tag' = latest_tag_name
             /\ tag_reads' = tag_reads + 1
             /\ IF r.err # "none"
                THEN Fail(r.err) /\ UNCHANGED << latest_version, release_version >>
                ELSE /\ latest_version' = r.v
                     /\ IF n.err # "none"
                        THEN Fail(n.err) /\ UNCHANGED release_version
                        ELSE Goto(AfterResolve) /\ release_version' = n.v
    /\ UNCHANGED << inputs, stage, calls, repo, run, origin_tags, gh_existing, gh_answer, branch_exists, publish_answer, hosted_releases >>

(***************************************************************************)
(* Step 4: mutate and commit (not on the rebuild path).                    *)
(***************************************************************************)
\* _update_changelog: the new section is computed from the latest tag, then written
UpdateChangelog ==
    /\ pc = "changelog"
    /\ tag_reads' = tag_reads + 1
    /\ effects' = Append(effects, "changelog_write")
    /\ Goto("commit")
    /\ UNCHANGED << inputs, stage, calls, repo, run, origin_tags, gh_existing, gh_answer, branch_exists, head_tag, latest_version, release_version,
                    path, publish_answer, hosted_releases >>

\* _get_tag_str of LTTngToolsProject and Babeltrace2Project
GetTagStr(version) == <<"v">> \o VersionStr(version)

\* configure.ac, line by line.  A line is the declaration its text matches, or
\* "other" when it matches none of the patterns of _update_version and
\* _get_release_name, and the value it declares.
Line(decl, value) == [decl |-> decl, value |-> value]

\* the declarations _update_version of the project rewrites
VersionDecls(proj) ==
    IF proj = "babeltrace2"
    THEN {"bt_version_major", "bt_version_minor", "bt_version_patch"}
    ELSE {"AC_INIT"}

HasVersionDecl(proj, contents) ==
    \E i \in DOMAIN contents : contents[i].decl \in VersionDecls(proj)

\* LTTngToolsProject._update_version: exp.search(contents).span() is the first
\* match, and raises on None before configure.ac is opened for writing
LTTngTools_update_version(contents, new_version) ==
    LET hits == { i \in DOMAIN contents : contents[i].decl = "AC_INIT" }
    IN  IF hits = {}
        THEN [err |-> "AttributeError", written |-> FALSE, contents |-> contents]
        ELSE LET first == CHOOSE i \in hits : \A j \in hits : i <= j
             IN  [err |-> "none", written |-> TRUE,
                  contents |-> [contents EXCEPT ![first] =
                                    Line("AC_INIT", VersionStr(new_version))]]

\* Babeltrace2Project._update_version: three re.sub, each on every matching line
Babeltrace2_update_version(contents, new_version) ==
    [err |-> "none", written |-> TRUE,
     contents |-> [i \in DOMAIN contents |->
        IF contents[i].decl = "bt_version_major"
        THEN Line("bt_version_major", Render(new_version.major))
        ELSE IF contents[i].decl = "bt_version_minor"
        THEN Line("bt_version_minor", Render(new_version.minor))
        ELSE IF contents[i].decl = "bt_version_patch"
        THEN Line("bt_version_patch", ToStr(new_version.patch))
        ELSE contents[i]]]

\* Babeltrace1Project._update_version: one re.sub with major.minor.patch
Babeltrace1_update_version(contents, new_version) ==
    [err |-> "none", written |-> TRUE,
     contents |-> [i \in DOMAIN contents |->
        IF contents[i].decl = "AC_INIT"
        THEN Line("AC_INIT", Render(new_version.major) \o <<".">>
                             \o Render(new_version.minor) \o <<".">>
                             \o ToStr(new_version.patch))
        ELSE contents[i]]]

\* self._update_version(new_version), by the class of the project
UpdateVersion(proj, contents, new_version) ==
    IF proj = "lttng-tools" THEN LTTngTools_update_version(contents, new_version)
    ELSE IF proj = "babeltrace2" THEN Babeltrace2_update_version(contents, new_version)
    ELSE Babeltrace1_update_version(contents, new_version)

\* the value of configure.ac before the release: the working version
WorkingValue == <<"9">>

Other == Line("other", <<>>)

\* texts of configure.ac with and without the declarations of the project
ConfigureTexts(proj) ==
    IF proj = "babeltrace2"
    THEN { <<Other, Line("bt_version_name", <<"n">>)>>,
           <<Line("bt_version_major", WorkingValue), Line("bt_version_minor", WorkingValue),
             Line("bt_version_patch", WorkingValue), Line("bt_version_name", <<"n">>)>>,
           <<Line("bt_version_major", WorkingValue), Line("bt_version_minor", WorkingValue),
             Line("bt_version_patch", WorkingValue)>> }
    ELSE { <<Other>>, <<Other, Line("AC_INIT", WorkingValue)>> }

\* and a text that declares the version twice
MoreConfigureTexts(proj) ==
    ConfigureTexts(proj)
    \cup { [i \in 1..2 |-> Line(CHOOSE d \in VersionDecls(proj) : TRUE, WorkingValue)] }

\* "\t* {}\n".format(commit.summary); the summary of a commit is written as its sha
Entry(commit) == <<"\t* ", commit, "\n">>

\* the entries of the loop over iter_commits(), from commit number i on: the
\* loop breaks at the tagged commit
RECURSIVE Entries(_, _, _)
Entries(history, i, latest_tag_sha) ==
    IF i > Len(history) THEN <<>>
    ELSE IF history[i] = latest_tag_sha THEN <<>>
    ELSE <<Entry(history[i])>> \o Entries(history, i + 1, latest_tag_sha)

\* iter_commits() in the clone before the run commits: two commits made since
\* the latest tag, newest first, then the commit the latest tag names
PriorHistory == <<"w2", "w1", "p">>

PreviousTagSha == "p"

\* the entries _update_changelog wrote: those of _new_changelog_section, called
\* while the latest tag is still the previous one
WrittenEntries == Entries(PriorHistory, 1, PreviousTagSha)

\* ChangeLog before _update_changelog, and after: the entries of the new section
\* (its title is left out), then the old text
OldChangeLog == << <<"old">> >>

NewChangeLog == WrittenEntries \o OldChangeLog

\* the commits the run makes, oldest first
RunShaNames == <<"r1", "r2">>

\* iter_commits() once the run has made n commits
HistoryAfter(n) == [i \in 1..n |-> RunShaNames[n - i + 1]] \o PriorHistory

\* The entries of the _new_changelog_section call made by _get_release_body: git
\* describe now answers the tag of the run when the run made one.
NotesEntries(n, tagged) ==
    Entries(HistoryAfter(n), 1,
            IF tagged > 0 THEN RunShaNames[tagged] ELSE PreviousTagSha)

\* The clone when _commit_and_tag is called: HEAD and the index hold the files as
\* cloned, the working tree holds the ChangeLog _update_changelog wrote.
Clone(contents) ==
    [head |-> [f \in {"ChangeLog", "configure.ac"} |->
                  IF f = "ChangeLog" THEN OldChangeLog ELSE contents],
     index |-> [f \in {"ChangeLog", "configure.ac"} |->
                  IF f = "ChangeLog" THEN OldChangeLog ELSE contents],
     work |-> [f \in {"ChangeLog", "configure.ac"} |->
                  IF f = "ChangeLog" THEN NewChangeLog ELSE contents],
     commits |-> <<>>, tag |-> 0, effects |-> <<>>, err |-> "none"]

\* self._update_version(new_version) in the clone
WriteVersion(rs, proj, new_version) ==
    IF rs.err # "none" THEN rs
    ELSE LET u == UpdateVersion(proj, rs.work["configure.ac"], new_version)
         IN  IF u.err # "none" THEN [rs EXCEPT !.err = u.err]
             ELSE [rs EXCEPT !.work["configure.ac"] = u.contents,
                             !.effects = Append(@, "version_rewrite")]

\* self._repo.git.add(paths)
GitAdd(rs, paths) ==
    IF rs.err # "none" THEN rs
    ELSE [rs EXCEPT !.index = [f \in DOMAIN rs.index |->
                                  IF f \in paths THEN rs.work[f] ELSE rs.index[f]]]

\* self._repo.git.commit(...): git commit fails when nothing is staged
GitCommit(rs) ==
    IF rs.err # "none" THEN rs
    ELSE IF rs.index = rs.head THEN [rs EXCEPT !.err = "GitCommandError"]
    ELSE [rs EXCEPT !.commits = Append(@, rs.index), !.head = rs.index,
                    !.effects = Append(@, "commit")]

\* git tag run twice
GitTag_Twice(rs) ==
    IF rs.err # "none" THEN rs
    ELSE [rs EXCEPT !.tag = Len(rs.commits), !.effects = @ \o <<"tag", "tag">>]

\* self._repo.git.tag(...): the tag names HEAD
GitTag(rs) ==
    IF rs.err # "none" THEN rs
    ELSE [rs EXCEPT !.tag = Len(rs.commits), !.effects = Append(@, "tag")]

\* LTTngToolsProject._commit_and_tag
LTTngTools_commit_and_tag(rs, new_version) ==
    GitTag(GitCommit(GitAdd(WriteVersion(rs, "lttng-tools", new_version),
                            {"ChangeLog", "configure.ac"})))

\* Babeltrace2Project._get_release_name: match.group(1) of a search that may fail
GetReleaseName(rs) ==
    IF \E i \in DOMAIN rs.work["configure.ac"] :
            rs.work["configure.ac"][i].decl = "bt_version_name"
    THEN rs
    ELSE [rs EXCEPT !.err = "AttributeError"]

\* Babeltrace2Project._commit_and_tag with the version written before the tag
Babeltrace2_commit_and_tag_RewriteFirst(rs, new_version) ==
    GitTag(GitCommit(GitAdd(WriteVersion(GetReleaseName(rs), "babeltrace2", new_version),
                            {"ChangeLog", "configure.ac"})))

\* Babeltrace2Project._commit_and_tag: the ChangeLog is committed and tagged, then
\* the working version patch + 1 is written and committed on its own
Babeltrace2_commit_and_tag(rs, new_version) ==
    LET tagged == GitTag(GitCommit(GitAdd(GetReleaseName(rs), {"ChangeLog"})))
        working == Version(new_version.major, new_version.minor,
                           new_version.patch + 1, None)
    IN  GitCommit(GitAdd(WriteVersion(tagged, "babeltrace2", working),
                         {"configure.ac"}))

\* the effects of self._commit_and_tag(release_version, no_sign), or the exception
\* it raises: Babeltrace1Project._commit_and_tag takes no no_sign argument
CommitAndTagOutcome(proj, rs, new_version) ==
    IF proj = "lttng-tools" THEN LTTngTools_commit_and_tag(rs, new_version)
    ELSE IF proj = "babeltrace2" THEN Babeltrace2_commit_and_tag(rs, new_version)
    ELSE [rs EXCEPT !.err = "TypeError"]

\* self._commit_and_tag(release_version, no_sign) on a clone whose configure.ac
\* holds one of the texts
CommitAndTag ==
    /\ pc = "commit"
    /\ \E contents \in ConfigureTexts(project) :
         LET o == CommitAndTagOutcome(project, Clone(contents), release_version)
         IN  /\ effects' = effects \o o.effects
             /\ commits' = o.commits
             /\ tag_commit' = o.tag
             /\ head_tag' = IF o.tag > 0 THEN GetTagStr(release_version) ELSE head_tag
             /\ IF o.err # "none" THEN Fail(o.err) ELSE Goto("branch")
    /\ UNCHANGED << inputs, stage, calls, run, origin_tags, gh_existing, gh_answer, branch_exists, tag_reads, latest_version, release_version,
                    path, publish_answer, hosted_releases >>

\* if not branch_exists: self._set_current_branch(branch_name, True)
CreateBranch ==
    /\ pc = "branch"
    /\ effects' = IF ~branch_exists THEN effects \o SetCurrentBranch(TRUE) ELSE effects
    /\ Goto("gate")
    /\ UNCHANGED << inputs, stage, calls, repo, run, origin_tags, gh_existing, gh_answer, branch_exists, head_tag, tag_reads, latest_version,
                    release_version, path, publish_answer, hosted_releases >>

(***************************************************************************)
(* Step 5: the publish gate.                                               *)
(***************************************************************************)
\* PublishAllowed without the test of the dry-run flag
PublishAllowed_IgnoreDry(answer, dry_run) == answer

\* confirm(...) and not dry
PublishAllowed(answer, dry_run) == answer /\ ~dry_run

\* the gate with the push made before the operator is asked
PublishEffects_PushFirst == <<"push", "prompt">>

\* confirm("Publish tree at ... ?"), then self._publish(branch_name)
PublishEffects == <<"prompt", "push">>

PublishGate ==
    /\ pc = "gate"
    /\ \E answer \in BOOLEAN :
         /\ publish_answer' = IF answer THEN "yes" ELSE "no"
         /\ IF PublishAllowed(answer, dry)
            THEN /\ effects' = effects \o PublishEffects
                 /\ origin_tags' = Append(origin_tags, head_tag)
                 /\ Goto("github")
            ELSE /\ effects' = Append(effects, "prompt")
                 /\ Fail("AbortedRelease")
                 /\ UNCHANGED origin_tags
    /\ UNCHANGED << inputs, stage, calls, repo, run, gh_existing, gh_answer, branch_exists, head_tag, tag_reads, latest_version,
                    release_version, path, hosted_releases >>

(***************************************************************************)
(* Step 6: hosted releases.                                                *)
(***************************************************************************)
\* the arguments of _get_release_body evaluated without error on every path
ReleaseBodyError_Never(proj, taken) == "none"

\* what evaluating the arguments of _get_release_body raises: _get_tag_str is not
\* implemented by Babeltrace1Project, and latest_version is only bound on the
\* existing-series path
ReleaseBodyError(proj, taken) ==
    IF proj = "babeltrace1" THEN "NotImplementedError"
    ELSE IF taken # "existing" THEN "UnboundLocalError"
    ELSE "none"

\* Prerelease with the test inverted
Prerelease_Inverted(rtype) == rtype = "STABLE"

\* prerelease argument of _create_github_release
Prerelease(rtype) == rtype # "STABLE"

\* ReposWithoutRelease without the test of has_release
ReposWithoutRelease_All(urls, with_release) == urls

\* repos: the targets where no release carries the target tag
ReposWithoutRelease(urls, with_release) == urls \ with_release

GithubReleases ==
    /\ pc = "github"
    /\ \E listed \in SUBSET github_urls :       \* targets that list any release
       \E with_release \in SUBSET listed :      \* targets with a release for the tag
       \E answer \in BOOLEAN :
         LET repos == ReposWithoutRelease(github_urls, with_release)
         IN  IF project = "babeltrace1" /\ listed # {}
             THEN Fail("NotImplementedError")
                  /\ UNCHANGED << tag_reads, hosted_releases, effects, gh_existing,
                                  gh_answer >>
             ELSE /\ gh_existing' = with_release
                  /\ IF repos # {} /\ ~dry
                     THEN /\ gh_answer' = IF answer THEN "yes" ELSE "no"
                          /\ IF ~answer
                             THEN Goto("build")
                                  /\ UNCHANGED << tag_reads, hosted_releases, effects >>
                             ELSE IF ReleaseBodyError(project, path) # "none"
                             THEN Fail(ReleaseBodyError(project, path))
                                  /\ UNCHANGED << tag_reads, hosted_releases, effects >>
                             ELSE /\ tag_reads' = tag_reads + 1
                                  /\ hosted_releases' =
                                       { [url |-> u, prerelease |-> Prerelease(release_type),
                                          changelog |-> NotesEntries(Len(commits),
                                                                     tag_commit)] :
                                           u \in repos }
                                  /\ effects' = Append(effects, "hosted_release")
                                  /\ Goto("build")
                     ELSE Goto("build")
                          /\ UNCHANGED << tag_reads, hosted_releases, effects, gh_answer >>
    /\ UNCHANGED << inputs, stage, calls, repo, run, origin_tags, branch_exists, head_tag, latest_version,
                    release_version, path, publish_answer >>

(***************************************************************************)
(* Steps 7 to 9: build, artifact, uploads, descriptor.                     *)
(***************************************************************************)
\* BuildAccepted that takes builds without warnings only
BuildAccepted_SuccessOnly(status) == status = "SUCCESS"

\* Allow release builds with warnings
BuildAccepted(status) == status \in {"SUCCESS", "UNSTABLE"}

\* _generate_artifact as one step of release(): what it leaves behind for each
\* way its calls can end (the calls themselves are StartGenerate to Sign below)
GenerateArtifact ==
    /\ pc = "build"
    /\ \E connected \in BOOLEAN :      \* create_job answered within its retries
       \E watched \in BOOLEAN :        \* so did every call of _is_build_running
       \E status \in BuildStatuses :
       \E tarball_found \in BOOLEAN :  \* an artifact names str(version) and ".tar"
       \E signed \in BOOLEAN :         \* gpg succeeded, or the operator gave up on it
         LET build == IF reuse_last_build_artifacts
                      THEN <<"last_good_build">> ELSE <<"build_trigger">>
             sign == IF no_sign THEN <<>>
                     ELSE IF signed THEN <<"sign">> ELSE <<"sign_abandoned">>
         IN  IF ~reuse_last_build_artifacts /\ ~connected
             THEN Fail("ConnectionError") /\ UNCHANGED effects
             ELSE IF ~reuse_last_build_artifacts /\ ~watched
             THEN Fail("ConnectionError") /\ effects' = effects \o build
             ELSE IF ~BuildAccepted(status) \/ ~tarball_found
             THEN Fail("AbortedRelease") /\ effects' = effects \o build
             ELSE /\ effects' = effects \o build \o <<"artifact_fetch", "digest">> \o sign
                  /\ Goto("upload")
    /\ UNCHANGED << inputs, stage, calls, repo, run, origin_tags, gh_existing, gh_answer, branch_exists, head_tag, tag_reads, latest_version,
                    release_version, path, publish_answer, hosted_releases >>

\* artifact.upload(self._upload_location)
Upload ==
    /\ pc = "upload"
    /\ effects' = Append(effects, "upload")
    /\ Goto("github_upload")
    /\ UNCHANGED << inputs, stage, calls, repo, run, origin_tags, gh_existing, gh_answer, branch_exists, head_tag, tag_reads, latest_version,
                    release_version, path, publish_answer, hosted_releases >>

\* the targets where release_from_tag finds a release: those that had one and
\* those where the run created one
LocatedReleases == gh_existing \cup { r.url : r \in hosted_releases }

\* artifact.upload_to_github(gh, github_urls, self._get_tag_str(release_version)):
\* _get_tag_str is not implemented by Babeltrace1Project; the warning for a
\* target without release calls style() with the unknown keyword fd, a TypeError
UploadToGithub ==
    /\ pc = "github_upload"
    /\ IF project = "babeltrace1"
       THEN Fail("NotImplementedError") /\ UNCHANGED effects
       ELSE IF LocatedReleases # github_urls
       THEN Fail("TypeError") /\ UNCHANGED effects
       ELSE /\ effects' = IF github_urls # {} THEN Append(effects, "hosted_upload")
                          ELSE effects
            /\ Goto("return")
    /\ UNCHANGED << inputs, stage, calls, repo, run, origin_tags, gh_existing, gh_answer, branch_exists, head_tag, tag_reads,
                    latest_version, release_version, path, publish_answer,
                    hosted_releases >>

ReturnDescriptor ==
    /\ pc = "return"
    /\ pc' = "done"
    /\ result' = "returned"
    /\ UNCHANGED << inputs, stage, calls, repo, run, origin_tags, gh_existing, gh_answer, branch_exists, head_tag, tag_reads, latest_version,
                    release_version, path, publish_answer, hosted_releases, effects >>

Next ==
    \/ ValidateSeries
    \/ CloneRepo
    \/ ResolveRebuild
    \/ ResolveNewSeries
    \/ ResolveExisting
    \/ UpdateChangelog
    \/ CommitAndTag
    \/ CreateBranch
    \/ PublishGate
    \/ GithubReleases
    \/ GenerateArtifact
    \/ Upload
    \/ UploadToGithub
    \/ ReturnDescriptor

Spec == Init /\ [][Next]_vars

(***************************************************************************)
(* Restarting a failed run.  release() keeps no record of a run: the clone *)
(* is made in a fresh temporary directory, so a restart is a new call with *)
(* the same arguments against the origin as the failed run left it.        *)
(***************************************************************************)
MaxRuns == 2

\* the operator calls release() again, same arguments, after a run that
\* pushed its branch and tag and then failed
Restart ==
    /\ pc = "done"
    /\ result # "returned"
    /\ Len(origin_tags) = run
    /\ run < MaxRuns
    /\ run' = run + 1
    /\ origin_has_branch' = TRUE
    /\ pc' = "validate"
    /\ result' = "running"
    /\ branch_exists' = FALSE
    /\ head_tag' = <<>>
    /\ tag_reads' = 0
    /\ latest_version' = NoVersion
    /\ release_version' = NoVersion
    /\ path' = "none"
    /\ publish_answer' = "unasked"
    /\ hosted_releases' = {}
    /\ effects' = <<>>
    /\ gh_existing' = {}
    /\ gh_answer' = "unasked"
    /\ commits' = <<>>
    /\ tag_commit' = 0
    /\ UNCHANGED << project, series, release_type, rebuild, dry, no_sign,
                    reuse_last_build_artifacts, github_urls, origin_tags, stage, calls >>

NextRestart ==
    \/ Next
    \/ Restart

SpecRestart == Init /\ [][NextRestart]_vars


(***************************************************************************)
(* Steps 7 to 9 in detail: _generate_artifact, the ReleaseArtifact it      *)
(* returns, its two uploads and the return of release(), one action per    *)
(* attempt, poll, command run and loop iteration.                          *)
(***************************************************************************)
MaxPolls == 2

MaxCmdRuns == 2

\* create_job_try_count = 20
CreateJobTryCount == 20

\* build_status_update_try_count = 20
BuildStatusUpdateTryCount == 20

\* everything release() holds when it reaches _generate_artifact, but its
\* position, result and effects
release_vars == << project, series, release_type, rebuild, dry, no_sign,
                   reuse_last_build_artifacts, github_urls, origin_has_branch,
                   branch_exists, head_tag, tag_reads, latest_version, release_version,
                   path, publish_answer, hosted_releases, gh_existing, gh_answer, run,
                   origin_tags, commits, tag_commit >>

\* RetryOutcome that raises once the counter is below zero
RetryOutcome_RaiseBelowZero(count, connected) ==
    IF connected THEN [next |-> "result", count |-> count]
    ELSE IF count - 1 < 0 THEN [next |-> "raise", count |-> count - 1]
    ELSE [next |-> "retry", count |-> count - 1]

\* one iteration of `try: <call>; except ConnectionError: count -= 1;
\* if count == 0: raise`, as written for create_job and for is_running
RetryOutcome(count, connected) ==
    IF connected THEN [next |-> "result", count |-> count]
    ELSE IF count - 1 = 0 THEN [next |-> "raise", count |-> count - 1]
    ELSE [next |-> "retry", count |-> count - 1]

\* reuse_last_build_artifacts: job.get_last_good_build(); else the retry loop
\* of create_job starts
BuildSource_AlwaysCreate(reuse) == "create_job"

\* if reuse_last_build_artifacts: ... else: ...
BuildSource(reuse) == IF reuse THEN "last_good_build" ELSE "create_job"

StartGenerate ==
    /\ pc = "generate_artifact"
    /\ IF BuildSource(reuse_last_build_artifacts) = "last_good_build"
       THEN /\ effects' = Append(effects, "last_good_build")
            /\ Goto("poll_status")
            /\ UNCHANGED << try_count, attempts >>
       ELSE /\ try_count' = CreateJobTryCount
            /\ attempts' = 0
            /\ Goto("create_job")
            /\ UNCHANGED effects
    /\ UNCHANGED << release_vars, calls, polls, build_status, build_artifacts, artifact_name,
                    files, cmd_runs, abandoned, file_index, uploaded, url_index,
                    releases, assets, sent >>

\* one attempt of server.create_job(job_name, None)
CreateJob ==
    /\ pc = "create_job"
    /\ try_count >= 0
    /\ \E connected \in BOOLEAN :
         LET o == RetryOutcome(try_count, connected)
         IN  /\ attempts' = attempts + 1
             /\ try_count' = o.count
             /\ IF o.next = "raise" THEN Fail("ConnectionError")
                ELSE IF o.next = "retry" THEN Goto("create_job")
                ELSE Goto("invoke")
    /\ UNCHANGED << release_vars, calls, effects, polls, build_status, build_artifacts,
                    artifact_name, files, cmd_runs, abandoned, file_index, uploaded,
                    url_index, releases, assets, sent >>

\* queue_item = job.invoke()
Invoke ==
    /\ pc = "invoke"
    /\ effects' = Append(effects, "build_trigger")
    /\ try_count' = None
    /\ attempts' = 0
    /\ Goto("scheduling")
    /\ UNCHANGED << release_vars, calls, polls, build_status, build_artifacts, artifact_name,
                    files, cmd_runs, abandoned, file_index, uploaded, url_index,
                    releases, assets, sent >>

\* a wait that gives up at the second poll that is not answered
AfterNotBuiltYet_GiveUp(polled) == IF polled >= 1 THEN "raise" ELSE "continue"

\* except NotBuiltYet: time.sleep(1), continue: the loop counts nothing
AfterNotBuiltYet(polled) == "continue"

\* one iteration of the wait for the build to be scheduled: get_build() answers,
\* or NotBuiltYet is raised and the loop sleeps and polls again
QueuePoll ==
    /\ pc = "scheduling"
    /\ \E built \in (IF polls < MaxPolls THEN BOOLEAN ELSE {TRUE}) :
         IF built
         THEN /\ polls' = 0
              /\ try_count' = BuildStatusUpdateTryCount
              /\ attempts' = 0
              /\ Goto("building")
         ELSE IF AfterNotBuiltYet(polls) = "continue"
         THEN /\ polls' = polls + 1
              /\ Goto("scheduling")
              /\ UNCHANGED << try_count, attempts >>
         ELSE /\ Fail("AbortedRelease")
              /\ UNCHANGED << polls, try_count, attempts >>
    /\ UNCHANGED << release_vars, calls, effects, build_status, build_artifacts, artifact_name,
                    files, cmd_runs, abandoned, file_index, uploaded, url_index,
                    releases, assets, sent >>

\* one attempt of build.is_running() inside _is_build_running; an answer of
\* True makes the progress loop sleep and call _is_build_running again
IsBuildRunning ==
    /\ pc = "building"
    /\ try_count >= 0
    /\ \E connected \in BOOLEAN :
       \E is_running \in (IF polls < MaxPolls THEN BOOLEAN ELSE {FALSE}) :
         LET o == RetryOutcome(try_count, connected)
         IN  IF o.next = "raise"
             THEN /\ Fail("ConnectionError")
                  /\ attempts' = attempts + 1
                  /\ try_count' = o.count
                  /\ UNCHANGED polls
             ELSE IF o.next = "retry"
             THEN /\ Goto("building")
                  /\ attempts' = attempts + 1
                  /\ try_count' = o.count
                  /\ UNCHANGED polls
             ELSE IF is_running
             THEN /\ Goto("building")
                  /\ polls' = polls + 1
                  /\ try_count' = BuildStatusUpdateTryCount
                  /\ attempts' = 0
             ELSE /\ Goto("poll_status")
                  /\ polls' = 0
                  /\ try_count' = None
                  /\ attempts' = 0
    /\ UNCHANGED << release_vars, calls, effects, build_status, build_artifacts, artifact_name,
                    files, cmd_runs, abandoned, file_index, uploaded, url_index,
                    releases, assets, sent >>

\* build_status = build.poll() and the test of build_status["result"]
PollStatus ==
    /\ pc = "poll_status"
    /\ \E status \in BuildStatuses :
         /\ build_status' = status
         /\ IF BuildAccepted(status) THEN Goto("select") ELSE Fail("AbortedRelease")
    /\ UNCHANGED << release_vars, calls, effects, try_count, attempts, polls, build_artifacts,
                    artifact_name, files, cmd_runs, abandoned, file_index, uploaded,
                    url_index, releases, assets, sent >>

\* Python's `sub in text` on strings
Contains(sub, text) ==
    \E i \in 1..(Len(text) - Len(sub) + 1) : SubSeq(text, i, i + Len(sub) - 1) = sub

TarMarker == <<".", "t", "a", "r">>

\* str(version) in artifact.filename and ".tar" in artifact.filename
LooksLikeTarball(version, filename) ==
    Contains(VersionStr(version), filename) /\ Contains(TarMarker, filename)

Matching(version, artifacts) ==
    { i \in 1..Len(artifacts) : LooksLikeTarball(version, artifacts[i]) }

\* ReleaseTarball that takes the last artifact that looks like a tarball
ReleaseTarball_Last(version, artifacts) ==
    LET m == Matching(version, artifacts)
    IN  IF m = {} THEN <<>>
        ELSE artifacts[CHOOSE i \in m : \A j \in m : j <= i]

\* the loop over build.get_artifacts(): the first artifact that looks like a
\* release tarball, <<>> (None) when there is none
ReleaseTarball(version, artifacts) ==
    LET m == Matching(version, artifacts)
    IN  IF m = {} THEN <<>>
        ELSE artifacts[CHOOSE i \in m : \A j \in m : i <= j]

\* filenames a release job can leave behind for a version
TarBz2(version) == <<"r", "-">> \o VersionStr(version) \o TarMarker \o <<".", "b", "z", "2">>

TarGz(version) == <<"r", "-">> \o VersionStr(version) \o TarMarker \o <<".", "g", "z">>

Zip(version) == <<"r", "-">> \o VersionStr(version) \o <<".", "z", "i", "p">>

OtherTar == <<"d", "o", "c">> \o TarMarker

BuildLog == <<"l", "o", "g">>

\* what build.get_artifacts() can answer
BuildOutputs(version) ==
    { <<>>,
      <<BuildLog>>,
      <<OtherTar, Zip(version)>>,
      <<TarBz2(version)>>,
      <<BuildLog, Zip(version), TarBz2(version), OtherTar>>,
      <<TarBz2(version), TarGz(version)>>,
      <<OtherTar, TarGz(version), TarBz2(version)>> }

\* the locals of _generate_artifact end with it
LeaveGenerateArtifact ==
    /\ build_status' = "none"
    /\ build_artifacts' = <<>>

\* the search for the release tarball among build.get_artifacts()
SelectArtifact ==
    /\ pc = "select"
    /\ \E artifacts \in BuildOutputs(release_version) :
         /\ build_artifacts' = artifacts
         /\ artifact_name' = ReleaseTarball(release_version, artifacts)
         /\ IF artifact_name' = <<>> THEN Fail("AbortedRelease") ELSE Goto("fetch")
    /\ UNCHANGED << release_vars, calls, effects, try_count, attempts, polls, build_status,
                    files, cmd_runs, abandoned, file_index, uploaded, url_index,
                    releases, assets, sent >>

\* ReleaseArtifact.__init__ up to the signature: save_to_dir, then the three
\* digest files
FetchAndHash ==
    /\ pc = "fetch"
    /\ files' = {"", ".md5", ".sha1", ".sha256"}
    /\ effects' = effects \o <<"artifact_fetch", "digest">>
    /\ IF no_sign
       THEN Goto("upload") /\ LeaveGenerateArtifact /\ file_index' = 1
       ELSE Goto("sign") /\ UNCHANGED << build_status, build_artifacts, file_index >>
    /\ UNCHANGED << release_vars, calls, try_count, attempts, polls, artifact_name, cmd_runs,
                    abandoned, uploaded, url_index, releases, assets, sent >>

\* one iteration of _run_cmd_confirm_on_failure: "returned" when check_call
\* succeeds, else the operator is asked: "again" loops, "declined" leaves the
\* loop and the function returns as well
RunCmdConfirmOnFailure(succeeded, run_again) ==
    IF succeeded THEN "returned" ELSE IF run_again THEN "again" ELSE "declined"

\* the answers the operator can give after failed_runs failures
RunAgainAnswers(failed_runs) == IF failed_runs < MaxCmdRuns THEN BOOLEAN ELSE {FALSE}

\* one run of gpg --armor -b artifact_path
Sign ==
    /\ pc = "sign"
    /\ \E succeeded \in BOOLEAN :
       \E run_again \in RunAgainAnswers(cmd_runs) :
         LET o == RunCmdConfirmOnFailure(succeeded, run_again)
         IN  IF o = "again"
             THEN /\ cmd_runs' = cmd_runs + 1
                  /\ Goto("sign")
                  /\ UNCHANGED << effects, files, abandoned, file_index, build_status,
                                  build_artifacts >>
             ELSE /\ cmd_runs' = 0
                  /\ files' = IF o = "returned" THEN files \cup {".asc"} ELSE files
                  /\ abandoned' = IF o = "declined"
                                  THEN abandoned \cup {<<"gpg", "">>} ELSE abandoned
                  /\ effects' = Append(effects, IF o = "returned" THEN "sign"
                                                ELSE "sign_abandoned")
                  /\ file_index' = 1
                  /\ LeaveGenerateArtifact
                  /\ Goto("upload")
    /\ UNCHANGED << release_vars, calls, try_count, attempts, polls, artifact_name, uploaded,
                    url_index, releases, assets, sent >>

\* os.listdir(self._dir), filtered by filename.startswith(self._name)
Listing(dir) == SelectSeq(FileSuffixes, LAMBDA f : f \in dir)

\* ReleaseArtifact.upload: one run of rsync for the file the loop is at
UploadFile ==
    /\ pc = "upload"
    /\ file_index <= Len(Listing(files))
    /\ \E succeeded \in BOOLEAN :
       \E run_again \in RunAgainAnswers(cmd_runs) :
         LET o == RunCmdConfirmOnFailure(succeeded, run_again)
             f == Listing(files)[file_index]
         IN  IF o = "again"
             THEN /\ cmd_runs' = cmd_runs + 1
                  /\ Goto("upload")
                  /\ UNCHANGED << effects, abandoned, file_index, uploaded >>
             ELSE /\ cmd_runs' = 0
                  /\ uploaded' = IF o = "returned" THEN uploaded \cup {f} ELSE uploaded
                  /\ abandoned' = IF o = "declined"
                                  THEN abandoned \cup {<<"rsync", f>>} ELSE abandoned
                  /\ effects' = IF o = "returned" THEN Append(effects, "upload")
                                ELSE effects
                  /\ file_index' = file_index + 1
                  /\ IF file_index = Len(Listing(files))
                     THEN Goto("github_upload") ELSE Goto("upload")
    /\ UNCHANGED << release_vars, calls, try_count, attempts, polls, build_status,
                    build_artifacts, artifact_name, files, url_index, releases, assets, sent >>

\* the urls argument of upload_to_github, in the order of the configuration
Urls == SelectSeq(<<"gh1", "gh2">>, LAMBDA u : u \in github_urls)

\* upload_to_github, first loop: one url; the tag argument is evaluated by the
\* caller first, and the warning for a url without release raises TypeError
LocateRelease ==
    /\ pc = "github_upload"
    /\ IF project = "babeltrace1"
       THEN Fail("NotImplementedError") /\ UNCHANGED << url_index, releases, file_index >>
       ELSE IF url_index = Len(Urls)
       THEN Goto("assets") /\ file_index' = 1 /\ UNCHANGED << url_index, releases >>
       ELSE /\ url_index' = url_index + 1
            /\ UNCHANGED file_index
            /\ IF Urls[url_index + 1] \in LocatedReleases
               THEN Goto("github_upload")
                    /\ releases' = Append(releases, Urls[url_index + 1])
               ELSE Fail("TypeError") /\ UNCHANGED releases
    /\ UNCHANGED << release_vars, calls, effects, try_count, attempts, polls, build_status,
                    build_artifacts, artifact_name, files, cmd_runs, abandoned, uploaded,
                    assets, sent >>

\* AssetsAfterUpload without the deletion of the assets of the same name
AssetsAfterUpload_KeepOld(held) == held + 1

\* the assets named filename that a release holds after the inner loop body:
\* every asset of that name is deleted, then upload_asset adds one
AssetsAfterUpload(held) == (held - held) + 1

\* upload_to_github, second loop: one file; on every release of the list the
\* assets of that name are deleted and the file is uploaded
\* What upload_asset reads from f for the release number i of the list: the file
\* is opened once, before the loop over the releases, and the first upload
\* leaves the handle at the end of the file.
ReadHandle(i) == IF i = 1 THEN "whole file" ELSE "nothing"

UploadAssets ==
    /\ pc = "assets"
    /\ IF file_index > Len(Listing(files))
       THEN Goto("return") /\ UNCHANGED << file_index, assets, sent, effects >>
       ELSE /\ file_index' = file_index + 1
            /\ assets' = [u \in DOMAIN assets |->
                            IF \E i \in 1..Len(releases) : releases[i] = u
                            THEN [assets[u] EXCEPT ![Listing(files)[file_index]] =
                                                      AssetsAfterUpload(@)]
                            ELSE assets[u]]
            /\ sent' = sent \cup { [url |-> releases[i], file |-> Listing(files)[file_index],
                                      content |-> ReadHandle(i)] : i \in 1..Len(releases) }
            /\ effects' = IF releases # <<>> THEN Append(effects, "hosted_upload")
                          ELSE effects
            /\ Goto("assets")
    /\ UNCHANGED << release_vars, calls, try_count, attempts, polls, build_status,
                    build_artifacts, artifact_name, files, cmd_runs, abandoned, uploaded,
                    url_index, releases >>

\* release() arrives at _generate_artifact on the rebuild path, with the
\* hosted-release stage behind it and no hosted release created
ArtifactTagNames(proj) ==
    LET major == IF proj = "babeltrace1" THEN 1 ELSE 2
    IN  { MkTag(major, 13, 1, None), MkTag(major, 13, 0, 1) }

\* what a release that existed before the run can hold: nothing, or the files
\* an earlier run uploaded for the same artifact
PriorAssets == { NoAssets, [f \in FileSet |-> 1] }

InitArtifact ==
    /\ project \in Projects
    /\ series = IF project = "babeltrace1" THEN <<"1", ".", "5">>
                ELSE <<"2", ".", "1", "3">>
    /\ release_type = "STABLE"
    /\ rebuild = TRUE
    /\ dry = FALSE
    /\ no_sign \in BOOLEAN
    /\ reuse_last_build_artifacts \in BOOLEAN
    /\ github_urls \in GithubUrlSets
    /\ origin_has_branch = TRUE
    /\ pc = "generate_artifact"
    /\ result = "running"
    /\ branch_exists = TRUE
    /\ head_tag \in ArtifactTagNames(project)
    /\ tag_reads = 1
    /\ latest_version = NoVersion
    /\ release_version = VersionFromTag(head_tag).v
    /\ path = "rebuild"
    /\ publish_answer = "unasked"
    /\ hosted_releases = {}
    /\ effects = <<"clone">> \o SetCurrentBranch(FALSE)
    /\ gh_existing \in SUBSET github_urls
    /\ gh_answer = IF gh_existing = github_urls THEN "unasked" ELSE "no"
    /\ run = 1
    /\ origin_tags = <<>>
    /\ StageStart
    /\ NoCall
    /\ NoCommits
    /\ assets \in [github_urls -> PriorAssets]
    /\ \A u \in github_urls \ gh_existing : assets[u] = NoAssets

NextArtifact ==
    \/ StartGenerate
    \/ CreateJob
    \/ Invoke
    \/ QueuePoll
    \/ IsBuildRunning
    \/ PollStatus
    \/ SelectArtifact
    \/ FetchAndHash
    \/ Sign
    \/ UploadFile
    \/ LocateRelease
    \/ UploadAssets
    \/ ReturnDescriptor

SpecArtifact == InitArtifact /\ [][NextArtifact]_vars

\* the wait loop keeps running, and the build service answers in the end
SpecArtifactFair == SpecArtifact /\ WF_vars(QueuePoll)

(***************************************************************************)
(* The static functions of Project and of the project classes, each        *)
(* called on its own with an argument drawn from a set of strings.         *)
(***************************************************************************)
MaxSeriesLen == 4

SeriesAlphabet == {"1", "2", "3", ".", "x", "+"}

\* every string of at most MaxSeriesLen characters of the alphabet
SeriesStrings == UNION { [1..n -> SeriesAlphabet] : n \in 0..MaxSeriesLen }

TagNumbers == { <<>>, <<"0">>, <<"2">>, <<"0", "2">>, <<"1", "3">>, <<"x">> }

TagEndings ==
    { <<>>, <<"-", "r", "c", "1">>, <<"-", "r", "c">>, <<"-", "r", "c", "0">>,
      <<"-", "r", "c", "0", "1">>, <<"-", "r", "c", "1", "x">>, <<"-", "r", "c", "x">>,
      <<"x">>, <<"\n">>, <<"-", "r", "c", "1", "\n">>, <<"-", "r", "c", "1", "2">> }

\* tag names of the shape v<a>.<b>.<c><ending>, and some that lack the v or a dot
TagStrings ==
    { <<"v">> \o a \o <<".">> \o b \o <<".">> \o c \o e :
        a \in TagNumbers, b \in TagNumbers, c \in TagNumbers, e \in TagEndings }
    \cup { <<>>, <<"v">>, <<"2", ".", "1", "3", ".", "0">>, <<"v", "2", ".", "1", "3">>,
           <<"V", "2", ".", "1", "3", ".", "0">>, <<"x", "v", "2", ".", "1", "3", ".", "0">> }

\* the attributes Project.__init__ reads from the configuration, in its order
RequiredAttributes ==
    <<"git_urls", "ci_url", "ci_user", "ci_token", "github_user", "github_token",
      "upload_location">>

AttributeSet == { RequiredAttributes[i] : i \in DOMAIN RequiredAttributes }

\* self._name of the project classes
ProjectName(proj) ==
    IF proj = "lttng-tools" THEN "LTTng-tools"
    ELSE IF proj = "babeltrace2" THEN "Babeltrace2"
    ELSE "Babeltrace1"

SectionNames == {"lttng-tools", "Babeltrace2", "BABELTRACE1", "reml"}

\* str.lower() on the names above
Lower(name) ==
    IF name \in {"LTTng-tools", "lttng-tools"} THEN "lttng-tools"
    ELSE IF name = "Babeltrace2" THEN "babeltrace2"
    ELSE IF name \in {"Babeltrace1", "BABELTRACE1"} THEN "babeltrace1"
    ELSE name

CfgPath == "reml.conf"

\* the configurations at start-up: whether reml.conf is read, the sections it
\* has, and the attributes of the section of the project when it has one;
\* at most two attributes are left out
Configurations ==
    [found : BOOLEAN, sections : SUBSET SectionNames,
     attributes : { a \in SUBSET AttributeSet : Cardinality(AttributeSet \ a) <= 2 }]

\* reml.config.get_project_config(project_name): the error raised, or "none" and
\* the keys of the dict of the section; is_none when None is returned because no
\* section has the name of the project
GetProjectConfig(cfg, project_name) ==
    IF ~cfg.found
    THEN [err |-> "MissingConfigurationError", is_none |-> TRUE, config |-> {}]
    ELSE IF \E section \in cfg.sections : Lower(section) = Lower(project_name)
    THEN [err |-> "none", is_none |-> FALSE, config |-> cfg.attributes]
    ELSE [err |-> "none", is_none |-> TRUE, config |-> {}]

\* Project.__init__: self._config[...] on None is a TypeError, which the
\* except KeyError clause does not catch
ProjectInit(cfg, proj) ==
    LET c == GetProjectConfig(cfg, ProjectName(proj))
        missing == { i \in DOMAIN RequiredAttributes :
                        RequiredAttributes[i] \notin c.config }
    IN  IF c.err # "none" THEN [err |-> c.err, names |-> <<CfgPath>>]
        ELSE IF c.is_none THEN [err |-> "TypeError", names |-> <<>>]
        ELSE IF missing # {}
        THEN [err |-> "MissingConfigurationAttributeError",
              names |-> <<RequiredAttributes[CHOOSE i \in missing :
                                                \A j \in missing : i <= j],
                          ProjectName(proj)>>]
        ELSE [err |-> "none", names |-> <<>>]

\* the longest history _new_changelog_section is called on
MaxCommits == 3

ShaNames == <<"a", "b", "c", "d", "e", "f">>

Shas == { ShaNames[i] : i \in 1..MaxCommits }

\* self._repo.iter_commits(): the commits of HEAD, newest first, each once
Histories ==
    { h \in UNION { [1..n -> Shas] : n \in 1..MaxCommits } :
        \A i, j \in DOMAIN h : i # j => h[i] # h[j] }

TagRefName == "v2.13.0"

\* self._repo.refs for a history whose commit number k carries the latest tag:
\* the branch and the tag, in either order
RefLists(h, k) ==
    { <<[name |-> "master", sha |-> h[1]], [name |-> TagRefName, sha |-> h[k]]>>,
      <<[name |-> TagRefName, sha |-> h[k]], [name |-> "master", sha |-> h[1]]>> }

\* date.today()
Dates == { [year |-> 2020, month |-> 1, day |-> 5],
           [year |-> 2021, month |-> 11, day |-> 23] }

\* the tagline argument: empty when none was given
Taglines == { <<>>, <<"tagline">> }

\* the arguments and the repository of a call of _new_changelog_section
ChangelogCalls ==
    UNION { { [today |-> d, tagline |-> t, history |-> h, refs |-> r] :
                d \in Dates, t \in Taglines,
                r \in UNION { RefLists(h, k) : k \in DOMAIN h } } :
            h \in Histories }

\* self.changelog_project_name
ChangelogProjectName(proj) ==
    IF proj = "lttng-tools" THEN "lttng-tools"
    ELSE IF proj = "babeltrace2" THEN "Babeltrace"
    ELSE "babeltrace"

\* "{:02d}".format(n)
Pad2(n) == IF n < 10 THEN <<"0">> \o ToStr(n) ELSE ToStr(n)

\* the title line of the section
Title(today, name, new_version, tagline) ==
    ToStr(today.year) \o <<"-">> \o Pad2(today.month) \o <<"-">> \o Pad2(today.day)
    \o <<" ", name, " ">> \o VersionStr(new_version)
    \o (IF tagline # <<>> THEN <<" (">> \o tagline \o <<")">> ELSE <<>>)
    \o <<"\n">>

\* commit.hexsha of the first ref whose name is the latest tag name
LatestTagSha(refs, latest_tag_name) ==
    refs[CHOOSE i \in DOMAIN refs :
            /\ refs[i].name = latest_tag_name
            /\ \A j \in 1..(i - 1) : refs[j].name # latest_tag_name].sha

\* _new_changelog_section with the entry of the tagged commit appended
NewChangelogSection_ThroughTag(proj, new_version, c) ==
    <<Title(c.today, ChangelogProjectName(proj), new_version, c.tagline)>>
    \o Entries(c.history, 1, LatestTagSha(c.refs, TagRefName))
    \o <<Entry(LatestTagSha(c.refs, TagRefName))>>

\* Project._new_changelog_section(new_version, tagline)
NewChangelogSection(proj, new_version, c) ==
    <<Title(c.today, ChangelogProjectName(proj), new_version, c.tagline)>>
    \o Entries(c.history, 1, LatestTagSha(c.refs, TagRefName))

\* the new_version arguments of _update_version
NewVersions ==
    { Version(PyInt(2), PyInt(13), 0, 1), Version(PyInt(2), PyInt(13), 1, None),
      Version(PyStr(<<"2">>), PyStr(<<"1", "4">>), 0, 1) }

\* no run of release() is in progress; release_version holds the Version argument
\* of the function called, when it takes one
NoRun ==
    /\ series = <<>>
    /\ release_type = "STABLE"
    /\ rebuild = FALSE
    /\ dry = FALSE
    /\ no_sign = FALSE
    /\ reuse_last_build_artifacts = FALSE
    /\ github_urls = {}
    /\ origin_has_branch = FALSE
    /\ pc = "call"
    /\ result = "running"
    /\ branch_exists = FALSE
    /\ head_tag = <<>>
    /\ tag_reads = 0
    /\ latest_version = NoVersion
    /\ path = "none"
    /\ publish_answer = "unasked"
    /\ hosted_releases = {}
    /\ effects = <<>>
    /\ gh_existing = {}
    /\ gh_answer = "unasked"
    /\ run = 1
    /\ origin_tags = <<>>
    /\ StageInit
    /\ NoCommits

InitFunctions ==
    /\ NoRun
    /\ ret = NotReturned
    /\ \/ /\ call = "_is_release_series_valid"
          /\ project \in Projects
          /\ arg \in SeriesStrings
          /\ release_version = NoVersion
       \/ /\ call = "_version_from_tag"
          /\ project = "lttng-tools"
          /\ arg \in TagStrings
          /\ release_version = NoVersion
       \/ /\ call = "__init__"
          /\ project \in Projects
          /\ arg \in Configurations
          /\ release_version = NoVersion
       \/ /\ call = "_new_changelog_section"
          /\ project \in Projects
          /\ arg \in ChangelogCalls
          /\ release_version \in NewVersions
       \/ /\ call = "_update_version"
          /\ project \in Projects
          /\ arg \in MoreConfigureTexts(project)
          /\ release_version \in NewVersions

\* cls._is_release_series_valid(series)
IsReleaseSeriesValidCall ==
    /\ call = "_is_release_series_valid"
    /\ ret = NotReturned
    /\ ret' = [err |-> "none", b |-> IsReleaseSeriesValid(project, arg),
               v |-> NoVersion, s |-> <<>>]
    /\ UNCHANGED << inputs, stage, repo, call, arg, run, origin_tags, gh_existing, gh_answer,
                    pc, result, branch_exists, head_tag, tag_reads, latest_version,
                    release_version, path, publish_answer, hosted_releases, effects >>

\* Project._version_from_tag(tag_name)
VersionFromTagCall ==
    /\ call = "_version_from_tag"
    /\ ret = NotReturned
    /\ ret' = [err |-> VersionFromTag(arg).err, b |-> FALSE, v |-> VersionFromTag(arg).v,
               s |-> <<>>]
    /\ UNCHANGED << inputs, stage, repo, call, arg, run, origin_tags, gh_existing, gh_answer,
                    pc, result, branch_exists, head_tag, tag_reads, latest_version,
                    release_version, path, publish_answer, hosted_releases, effects >>

\* Project._tag_from_version(version), on the version _version_from_tag returned
TagFromVersionCall ==
    /\ call = "_version_from_tag"
    /\ ret.err = "none"
    /\ call' = "_tag_from_version"
    /\ ret' = [ret EXCEPT !.s = TagFromVersion(ret.v)]
    /\ UNCHANGED << inputs, stage, repo, arg, run, origin_tags, gh_existing, gh_answer,
                    pc, result, branch_exists, head_tag, tag_reads, latest_version,
                    release_version, path, publish_answer, hosted_releases, effects >>

\* self._update_version(new_version) on a configure.ac that holds arg; ret.s is
\* what configure.ac holds afterwards, ret.b whether it was opened for writing
UpdateVersionCall ==
    /\ call = "_update_version"
    /\ ret = NotReturned
    /\ LET o == UpdateVersion(project, arg, release_version)
       IN  ret' = [err |-> o.err, b |-> o.written, v |-> NoVersion, s |-> o.contents]
    /\ UNCHANGED << inputs, stage, repo, call, arg, run, origin_tags, gh_existing, gh_answer,
                    pc, result, branch_exists, head_tag, tag_reads, latest_version,
                    release_version, path, publish_answer, hosted_releases, effects >>

\* project = project_class() in main: ret.err is the exception raised and ret.s
\* the names it carries, which main prints before sys.exit(1) when it catches it
ProjectInitCall ==
    /\ call = "__init__"
    /\ ret = NotReturned
    /\ LET o == ProjectInit(arg, project)
       IN  ret' = [err |-> o.err, b |-> FALSE, v |-> NoVersion, s |-> o.names]
    /\ UNCHANGED << inputs, stage, repo, call, arg, run, origin_tags, gh_existing, gh_answer,
                    pc, result, branch_exists, head_tag, tag_reads, latest_version,
                    release_version, path, publish_answer, hosted_releases, effects >>

\* self._new_changelog_section(new_version, tagline); ret.s is the list returned
NewChangelogSectionCall ==
    /\ call = "_new_changelog_section"
    /\ ret = NotReturned
    /\ ret' = [err |-> "none", b |-> FALSE, v |-> NoVersion,
               s |-> NewChangelogSection(project, release_version, arg)]
    /\ UNCHANGED << inputs, stage, repo, call, arg, run, origin_tags, gh_existing, gh_answer,
                    pc, result, branch_exists, head_tag, tag_reads, latest_version,
                    release_version, path, publish_answer, hosted_releases, effects >>

\* Project._version_from_series(series) on a series the project accepted, and
\* the new-series target Version(major, minor, 0, 1) release() builds from it
VersionFromSeriesCall ==
    /\ call = "_is_release_series_valid"
    /\ ret.err = "none"
    /\ ret.b
    /\ call' = "_version_from_series"
    /\ LET o == NewSeriesVersion(arg, "RELEASE_CANDIDATE")
       IN  ret' = [err |-> o.err, b |-> TRUE, v |-> o.v,
                   s |-> IF o.err = "none" THEN VersionStr(o.v) ELSE <<>>]
    /\ UNCHANGED << inputs, stage, repo, arg, run, origin_tags, gh_existing, gh_answer,
                    pc, result, branch_exists, head_tag, tag_reads, latest_version,
                    release_version, path, publish_answer, hosted_releases, effects >>

NextFunctions ==
    \/ ProjectInitCall
    \/ VersionFromSeriesCall
    \/ NewChangelogSectionCall
    \/ IsReleaseSeriesValidCall
    \/ VersionFromTagCall
    \/ TagFromVersionCall
    \/ UpdateVersionCall

SpecFunctions == InitFunctions /\ [][NextFunctions]_vars

(***************************************************************************)
(* Properties.                                                             *)
(***************************************************************************)
HasEffect(e) == \E i \in 1..Len(effects) : effects[i] = e

\* the latest tag was read and parsed into latest_version
PriorParsed == path = "existing" /\ latest_version # NoVersion

RepositoryMutations ==
    {"changelog_write", "version_rewrite", "commit", "tag", "branch_create"}

Publications ==
    {"push", "hosted_release", "build_trigger", "upload", "hosted_upload"}

IsPrefix(p, s) == Len(p) <= Len(s) /\ \A i \in 1..Len(p) : p[i] = s[i]

\* C1: on the existing-series path every parsed prior version and every release
\* type yield a target version with the prior major and minor and with patch 0
\* and rc priorRc + 1 for a candidate, patch 0 and no rc for a stable release
\* after a candidate, patch priorPatch + 1 and no rc for a stable release after
\* a stable release.
C1_ExistingSeriesTable ==
    PriorParsed =>
        /\ release_version.major = latest_version.major
        /\ release_version.minor = latest_version.minor
        /\ release_type = "RELEASE_CANDIDATE" =>
              /\ release_version.patch = 0
              /\ release_version.rc # None
              /\ latest_version.rc # None => release_version.rc = latest_version.rc + 1
        /\ (release_type = "STABLE" /\ latest_version.rc # None) =>
              release_version.patch = 0 /\ release_version.rc = None
        /\ (release_type = "STABLE" /\ latest_version.rc = None) =>
              /\ release_version.patch = latest_version.patch + 1
              /\ release_version.rc = None

\* C2 as stated: a stable release that follows the candidate vX.Y.Z-rcN has the
\* version X.Y.Z, whatever Z is.
C2_StableKeepsCandidatePatch ==
    (PriorParsed /\ release_type = "STABLE" /\ latest_version.rc # None) =>
        release_version =
            Version(latest_version.major, latest_version.minor, latest_version.patch, None)

\* C2 amended: a stable release that follows the candidate vX.Y.Z-rcN has the
\* version X.Y.0: the rc is removed and the patch is reset to 0.
C2_StableAfterCandidateResetsPatch ==
    (PriorParsed /\ release_type = "STABLE" /\ latest_version.rc # None) =>
        release_version = Version(latest_version.major, latest_version.minor, 0, None)

C2_Witness ==
    /\ PriorParsed
    /\ release_type = "STABLE"
    /\ latest_version.rc # None
    /\ latest_version.patch > 0
    /\ VersionStr(release_version) = <<"2", ".", "1", "3", ".", "0">>

\* C3: on the existing-series path a candidate release resolves a target version
\* for any parsed prior version, also one without rc: no exception ends the run
\* in the resolution, and the target has patch 0 and an rc number.
C3_CandidateAlwaysResolves ==
    (PriorParsed /\ release_type = "RELEASE_CANDIDATE") =>
        /\ result # "TypeError"
        /\ release_version # NoVersion
        /\ release_version.patch = 0
        /\ release_version.rc >= 0

C5_NewSeriesNeedsCandidate ==
    (path = "new" /\ release_type # "RELEASE_CANDIDATE") =>
        /\ pc = "done"
        /\ result = "InvalidReleaseTypeError"
        /\ release_version = NoVersion

C5_Witness ==
    /\ path = "new"
    /\ release_type = "STABLE"
    /\ ~rebuild
    /\ ~branch_exists
    /\ result = "InvalidReleaseTypeError"

\* C6: with the rebuild flag and no branch stable-{series} the run ends with
\* InvalidReleaseRebuildOptionError for every release type, and the clone is
\* never changed.
C6_RebuildNeedsBranch ==
    (rebuild /\ ~origin_has_branch) =>
        /\ \A i \in 1..Len(effects) : effects[i] = "clone"
        /\ path # "new"
        /\ result \in {"running", "InvalidReleaseSeriesError",
                       "InvalidReleaseRebuildOptionError"}
        /\ pc \in {"validate", "clone", "resolve", "done"}
        /\ path = "rebuild" =>
              /\ pc = "done"
              /\ result = "InvalidReleaseRebuildOptionError"
              /\ release_version = NoVersion

C6_Witness ==
    /\ rebuild
    /\ ~origin_has_branch
    /\ release_type = "STABLE"
    /\ result = "InvalidReleaseRebuildOptionError"
    /\ effects = <<"clone">>

\* C7: on the rebuild path with an existing branch the target version is the
\* version parsed from the latest tag, and the run writes no changelog, rewrites
\* no version, commits, tags, creates no branch, asks nothing and pushes nothing.
C7_RebuildDoesNotMutate ==
    (path = "rebuild" /\ branch_exists /\ result \notin
        {"UnexpectedTagNameError", "ValueError"}) =>
        /\ VersionFromTag(head_tag).err = "none"
        /\ release_version = VersionFromTag(head_tag).v
        /\ tag_reads = 1
        /\ publish_answer = "unasked"
        /\ \A e \in RepositoryMutations \cup {"prompt", "push"} : ~HasEffect(e)

C7_Witness ==
    /\ path = "rebuild"
    /\ branch_exists
    /\ result = "returned"
    /\ head_tag = <<"v", "2", ".", "1", "3", ".", "1">>
    /\ VersionStr(release_version) = <<"2", ".", "1", "3", ".", "1">>
    /\ HasEffect("upload")

\* C8: a series the project policy rejects ends the run with
\* InvalidReleaseSeriesError before the clone and before any other step.
C8_InvalidSeriesIsTerminal ==
    (~IsReleaseSeriesValid(project, series) /\ pc # "validate") =>
        /\ pc = "done"
        /\ result = "InvalidReleaseSeriesError"
        /\ effects = <<>>
        /\ path = "none"

C8_Witness ==
    /\ project = "lttng-tools"
    /\ series = <<"3", ".", "0">>
    /\ result = "InvalidReleaseSeriesError"
    /\ effects = <<>>

ValidationErrors ==
    {"InvalidReleaseSeriesError", "InvalidReleaseTypeError",
     "InvalidReleaseRebuildOptionError", "UnexpectedTagNameError"}

\* C9: when a validation error ends the run (also the ValueError of a tag with
\* an empty number), the run has written no changelog, rewritten no version,
\* made no commit, tag or branch, pushed nothing, created no hosted release and
\* uploaded nothing.
C9_ValidationBeforeMutation ==
    result \in ValidationErrors \cup {"ValueError"} =>
        \A e \in RepositoryMutations \cup Publications : ~HasEffect(e)

C9_Witness ==
    /\ result = "UnexpectedTagNameError"
    /\ path = "existing"
    /\ effects = <<"clone", "checkout">>

\* C10: a push happens only after the operator confirmed with dry-run off; when
\* the operator declines or dry-run is on, the run ends with AbortedRelease at
\* the gate and pushes, creates, builds and uploads nothing.
C10_PublishGate ==
    /\ HasEffect("push") => (publish_answer = "yes" /\ ~dry /\ ~rebuild)
    /\ (publish_answer # "unasked" /\ (publish_answer = "no" \/ dry)) =>
          /\ pc = "done"
          /\ result = "AbortedRelease"
          /\ \A e \in Publications \cup {"last_good_build", "artifact_fetch"} : ~HasEffect(e)

C10_Witness ==
    /\ publish_answer = "yes"
    /\ dry
    /\ result = "AbortedRelease"
    /\ HasEffect("tag")
    /\ ~HasEffect("push")

\* C11: a run started in dry-run mode, on any path including the rebuild path,
\* never returns a ReleaseDescriptor, never uploads an artifact and never
\* creates a hosted release.
C11_DryRunNeverPublishes ==
    dry =>
        /\ result # "returned"
        /\ ~HasEffect("upload")
        /\ ~HasEffect("hosted_upload")
        /\ hosted_releases = {}

\* C17: whenever the run reaches the hosted-release stage with dry-run off, a
\* target without a release for the tag and the operator confirming, a hosted
\* release is created at every such target, on every path.
C17_HostedReleaseAtEveryTarget ==
    gh_answer = "yes" =>
        { r.url : r \in hosted_releases } = github_urls \ gh_existing

\* C18: a hosted release is created only at a configured hosted target, and
\* never at a target that already has a release for the target tag.
C18_NoDuplicateHostedRelease ==
    \A r \in hosted_releases : r.url \in github_urls /\ r.url \notin gh_existing

C18_Witness ==
    /\ gh_existing = {"gh1"}
    /\ { r.url : r \in hosted_releases } = {"gh2"}

\* C19: every hosted release the run creates is flagged prerelease exactly when
\* the release type is not STABLE.
C19_PrereleaseFlag ==
    \A r \in hosted_releases : r.prerelease <=> (release_type # "STABLE")

C19_Witness ==
    /\ release_type = "STABLE"
    /\ \E r \in hosted_releases : ~r.prerelease

ArtifactEffects == {"artifact_fetch", "digest", "sign", "sign_abandoned", "upload",
                    "hosted_upload"}

\* the search for the release tarball has been made
Selected == build_status \in {"SUCCESS", "UNSTABLE"} /\ pc # "select"

\* C13: the step that reads the build status goes on to the artifact selection
\* exactly when the status is SUCCESS or UNSTABLE; with any other status the
\* run ends with AbortedRelease and nothing is fetched, signed or uploaded; an
\* UNSTABLE build with one matching artifact yields that artifact.
C13_BuildAcceptance ==
    /\ [][pc = "poll_status" =>
            (pc' = "select" <=> build_status' \in {"SUCCESS", "UNSTABLE"})]_vars
    /\ []((build_status \notin {"none", "SUCCESS", "UNSTABLE"}) =>
            /\ pc = "done"
            /\ result = "AbortedRelease"
            /\ artifact_name = <<>>
            /\ \A e \in ArtifactEffects : ~HasEffect(e))
    /\ []((Selected /\ build_status = "UNSTABLE"
             /\ Cardinality(Matching(release_version, build_artifacts)) = 1) =>
            /\ pc \in {"fetch", "sign"}
            /\ Contains(VersionStr(release_version), artifact_name)
            /\ Contains(TarMarker, artifact_name))

C13_Witness ==
    /\ build_status = "UNSTABLE"
    /\ build_artifacts = <<BuildLog, Zip(release_version), TarBz2(release_version), OtherTar>>
    /\ artifact_name = TarBz2(release_version)
    /\ HasEffect("artifact_fetch")

C15_RetryBound ==
    /\ attempts <= 20
    /\ pc \in {"create_job", "building"} => (try_count > 0 /\ attempts = 20 - try_count)
    /\ result = "ConnectionError" => (attempts = 20 /\ try_count = 0)

C15_Witness ==
    /\ result = "ConnectionError"
    /\ attempts = 20
    /\ HasEffect("build_trigger")
    /\ polls > 0

\* C16: once the operator has declined to run a failed signing or upload
\* command again, the run is aborted: no later step executes.
C16_AbandonAborts ==
    abandoned # {} => (pc = "done" /\ result = "AbortedRelease")

\* C20: a target without a release for the tag does not end the run in
\* upload_to_github: the run returns, and every target with a release for the
\* tag has received every file of the artifact.
C20_MissingReleaseSkipped ==
    /\ (url_index > 0 /\ pc = "done") => result = "returned"
    /\ result = "returned" =>
          \A u \in LocatedReleases : \A f \in files : assets[u][f] = 1

\* C21: in upload_to_github, every release of the list holds exactly one asset
\* for each file the second loop has passed, whatever it held before; when the
\* step is over this is so for every file of the artifact.
C21_OneAssetPerFile ==
    /\ pc = "assets" =>
          \A i \in 1..Len(releases) : \A k \in 1..Len(Listing(files)) :
             k < file_index => assets[releases[i]][Listing(files)[k]] = 1
    /\ (pc = "return" \/ result = "returned") =>
          \A i \in 1..Len(releases) : \A f \in files : assets[releases[i]][f] = 1

C21_Witness ==
    /\ result = "returned"
    /\ no_sign
    /\ releases = <<"gh1", "gh2">>
    /\ assets["gh1"][".asc"] = 1
    /\ assets["gh2"][".asc"] = 0
    /\ \A f \in files : assets["gh1"][f] = 1 /\ assets["gh2"][f] = 1

\* the generation a project accepts: the major of its release series
Generation(proj) == IF proj = "babeltrace1" THEN 1 ELSE 2

\* two non-empty runs of decimal digits with one dot between them
TwoNumbers(text) ==
    \E i \in 1..Len(text) :
        /\ text[i] = "."
        /\ i > 1 /\ AllDigits(SubSeq(text, 1, i - 1))
        /\ i < Len(text) /\ AllDigits(SubSeq(text, i + 1, Len(text)))

MajorOf(text) == DigitsToNat(SubSeq(text, 1, DigitRun(text, 1) - 1))

\* C22: _is_release_series_valid never raises; it returns True for a series
\* made of two dot-separated non-negative integers whose major is the
\* project's generation, and False for every other string.
C22_SeriesValidator ==
    (call = "_is_release_series_valid" /\ ret # NotReturned) =>
        /\ ret.err = "none"
        /\ ret.b <=> (TwoNumbers(arg) /\ MajorOf(arg) = Generation(project))

\* _version_from_tag has been called on arg and has returned or raised
TagParsed == call \in {"_version_from_tag", "_tag_from_version"} /\ ret # NotReturned

\* the shape vMAJOR.MINOR.PATCH or vMAJOR.MINOR.PATCH-rcN, every number a
\* non-empty run of decimal digits, and nothing after it
WellShapedTag(text) ==
    LET a == DigitRun(text, 2)
        b == DigitRun(text, a + 1)
        c == DigitRun(text, b + 1)
        d == DigitRun(text, c + 3)
    IN  /\ LitAt(text, 1, <<"v">>) /\ a > 2
        /\ LitAt(text, a, <<".">>) /\ b > a + 1
        /\ LitAt(text, b, <<".">>) /\ c > b + 1
        /\ \/ c = Len(text) + 1
           \/ LitAt(text, c, <<"-", "r", "c">>) /\ d > c + 3 /\ d = Len(text) + 1

\* no number of the tag is written with a leading zero
PlainNumbers(text) ==
    \A i \in 1..(Len(text) - 1) :
        (text[i] = "0" /\ IsDigit(text[i + 1])) => (i > 1 /\ IsDigit(text[i - 1]))

\* C23: _version_from_tag returns a Version exactly for the tag names of the
\* shape vMAJOR.MINOR.PATCH or vMAJOR.MINOR.PATCH-rcN with non-empty decimal
\* numbers; for every other string it raises UnexpectedTagNameError.
C23_TagShapes ==
    TagParsed =>
        IF WellShapedTag(arg) THEN ret.err = "none"
        ELSE ret.err = "UnexpectedTagNameError" /\ ret.v = NoVersion

\* C24: for a tag name vX.Y.Z or vX.Y.Z-rcN that _version_from_tag accepts,
\* "v" + str(version) of the parsed version is the tag name again (stated for
\* the tag names whose numbers have no leading zero).
C24_TagRoundTrip ==
    (call = "_tag_from_version" /\ WellShapedTag(arg) /\ PlainNumbers(arg)) =>
        ret.s = arg

\* C25: _update_version on a configure.ac without the version declaration of the
\* project raises VersionMarkerNotFoundError and leaves the file as it was; it
\* never returns normally
C25_MissingMarkerRaises ==
    (call = "_update_version" /\ ret # NotReturned /\ ~HasVersionDecl(project, arg))
        => (ret.err = "VersionMarkerNotFoundError" /\ ret.s = arg)

\* configure.ac declares the version: rewriting it to that version changes nothing
Declares(proj, contents, version) ==
    /\ HasVersionDecl(proj, contents)
    /\ UpdateVersion(proj, contents, version).contents = contents

\* C26: in every run that is not a rebuild, the commit that receives the release
\* tag contains the updated ChangeLog and a configure.ac rewritten to the target
\* version
C26_TaggedCommitHoldsBoth ==
    tag_commit > 0
        => /\ commits[tag_commit]["ChangeLog"] = NewChangeLog
           /\ Declares(project, commits[tag_commit]["configure.ac"], release_version)

\* C26, amended: the tagged commit always contains the updated ChangeLog.  For
\* lttng-tools it is the only commit and its configure.ac declares the target
\* version.  For babeltrace2 its configure.ac is as cloned, and the commit made
\* after the tag declares the working version, patch + 1.  babeltrace1 and a
\* rebuild commit nothing.
C26_TaggedCommitPerProject ==
    /\ (rebuild \/ project = "babeltrace1") => (commits = <<>> /\ tag_commit = 0)
    /\ tag_commit \in {0, 1}
    /\ tag_commit = 1 =>
        /\ commits[1]["ChangeLog"] = NewChangeLog
        /\ project = "lttng-tools" =>
            /\ Len(commits) = 1
            /\ Declares(project, commits[1]["configure.ac"], release_version)
        /\ project = "babeltrace2" =>
            /\ commits[1]["configure.ac"] \in ConfigureTexts(project)
            /\ Len(commits) \in {1, 2}
            /\ Len(commits) = 2 =>
                /\ commits[2]["ChangeLog"] = NewChangeLog
                /\ Declares(project, commits[2]["configure.ac"],
                            Version(release_version.major, release_version.minor,
                                    release_version.patch + 1, None))
            /\ Len(commits) = 1 => result = "GitCommandError"

C26_Witness ==
    /\ project = "babeltrace2"
    /\ tag_commit = 1
    /\ Len(commits) = 2
    /\ pc = "done"
    /\ result = "returned"

\* C27: a ReleaseDescriptor is returned only at the end of the run and only after
\* the push (when not a rebuild), an accepted build (the artifact is fetched from
\* no other), the upload of every file of the artifact to the distribution
\* location and the upload of every file to every located hosted release
C27_DescriptorOnlyAtSuccess ==
    result = "returned"
        => /\ pc = "done"
           /\ rebuild \/ HasEffect("push")
           /\ HasEffect("artifact_fetch")
           /\ uploaded = files
           /\ \A i \in 1..Len(releases) : \A f \in files : assets[releases[i]][f] = 1

\* the section of the project is in the configuration
HasSection(cfg, proj) ==
    \E section \in cfg.sections : Lower(section) = Lower(ProjectName(proj))

\* C28: start-up with no configuration file, no section for the project or a
\* required attribute missing fails with a configuration error that names the
\* missing path, project or attribute, and nothing is cloned
C28_StartupConfigurationErrors ==
    (call = "__init__" /\ ret # NotReturned) =>
        /\ effects = <<>>
        /\ ~arg.found =>
              (ret.err = "MissingConfigurationError" /\ ret.s = <<CfgPath>>)
        /\ (arg.found /\ ~HasSection(arg, project)) =>
              /\ ret.err \in {"MissingConfigurationError",
                              "MissingConfigurationAttributeError"}
              /\ \E i \in DOMAIN ret.s : ret.s[i] = ProjectName(project)
        /\ (arg.found /\ HasSection(arg, project) /\ arg.attributes # AttributeSet) =>
              /\ ret.err = "MissingConfigurationAttributeError"
              /\ ret.s[1] \in AttributeSet \ arg.attributes

\* position in the history of the commit the latest tag names
TaggedAt(c) ==
    CHOOSE k \in DOMAIN c.history :
        \E i \in DOMAIN c.refs : c.refs[i].name = TagRefName /\ c.refs[i].sha = c.history[k]

\* the two characters are the decimal digits of n, zero-padded
TwoDigits(text, n) ==
    /\ Len(text) = 2
    /\ IsDigit(text[1]) /\ IsDigit(text[2])
    /\ 10 * DigitVal(text[1]) + DigitVal(text[2]) = n

\* C29: the changelog section is the title line, then one entry for each commit
\* of the history that is newer than the tagged commit, newest first and each
\* with the same prefix; it has no entry for the tagged commit or an older one;
\* the title holds the zero-padded date, the changelog name of the project, the
\* target version and, when one is given, the tagline
C29_ChangelogSection ==
    (call = "_new_changelog_section" /\ ret # NotReturned) =>
        LET k == TaggedAt(arg)
            title == ret.s[1]
            stem == 13 + Len(VersionStr(release_version))
        IN  /\ Len(ret.s) = k
            /\ \A i \in 1..(k - 1) : ret.s[i + 1] = <<"\t* ", arg.history[i], "\n">>
            /\ \A i \in 2..Len(ret.s) : \A j \in k..Len(arg.history) :
                  ret.s[i][2] # arg.history[j]
            /\ SubSeq(title, 1, 4) = ToStr(arg.today.year)
            /\ title[5] = "-" /\ TwoDigits(SubSeq(title, 6, 7), arg.today.month)
            /\ title[8] = "-" /\ TwoDigits(SubSeq(title, 9, 10), arg.today.day)
            /\ title[11] = " " /\ title[12] = ChangelogProjectName(project)
            /\ title[13] = " "
            /\ SubSeq(title, 14, stem) = VersionStr(release_version)
            /\ arg.tagline = <<>> => SubSeq(title, stem + 1, Len(title)) = <<"\n">>
            /\ arg.tagline # <<>> =>
                  SubSeq(title, stem + 1, Len(title)) = <<" (">> \o arg.tagline \o <<")", "\n">>

C29_Witness ==
    /\ call = "_new_changelog_section"
    /\ ret # NotReturned
    /\ Len(arg.history) = 3
    /\ TaggedAt(arg) = 2
    /\ Len(ret.s) = 2
    /\ arg.tagline # <<>>
    /\ arg.today.month < 10

\* how many times the run had the effect
Count(e) == Cardinality({ i \in 1..Len(effects) : effects[i] = e })

\* C30: in every run, whatever its outcome, at most one release tag is made, at
\* most one branch is checked out or created, at most one push is made, at most
\* one build is triggered and at most one artifact is created; the target
\* version is resolved at most once, and nothing follows the return of the
\* descriptor, so at most one is returned
C30_AtMostOnePerRun ==
    /\ [](/\ Count("tag") <= 1
          /\ tag_commit <= 1
          /\ Count("checkout") + Count("branch_create") <= 1
          /\ Count("push") <= 1
          /\ Count("build_trigger") + Count("last_good_build") <= 1
          /\ Count("artifact_fetch") <= 1)
    /\ [][/\ result # "returned"
          /\ release_version # NoVersion => release_version' = release_version]_vars

C30_Witness ==
    /\ pc = "done"
    /\ result = "returned"
    /\ path = "new"
    /\ Count("tag") = 1
    /\ Count("branch_create") = 1
    /\ Count("push") = 1
    /\ Count("build_trigger") = 1
    /\ Count("artifact_fetch") = 1
    /\ Len(commits) = 2

\* the stage of release() an effect belongs to, in the order of the stages
Rank(e) ==
    IF e \in {"clone", "checkout"} THEN 0
    ELSE IF e = "changelog_write" THEN 1
    ELSE IF e \in {"version_rewrite", "commit", "tag"} THEN 2
    ELSE IF e = "branch_create" THEN 3
    ELSE IF e = "prompt" THEN 4
    ELSE IF e = "push" THEN 5
    ELSE IF e = "hosted_release" THEN 6
    ELSE IF e \in {"build_trigger", "last_good_build"} THEN 7
    ELSE IF e \in {"artifact_fetch", "digest", "sign", "sign_abandoned"} THEN 8
    ELSE IF e = "upload" THEN 9
    ELSE 10

\* position of the first occurrence of the effect, 0 when it has none
FirstAt(e) ==
    IF HasEffect(e) THEN CHOOSE i \in 1..Len(effects) :
                             effects[i] = e /\ \A j \in 1..(i - 1) : effects[j] # e
    ELSE 0

\* C31: in every run that returns and is not a rebuild, the effects occur in the
\* order changelog write, commit and tag, creation of a new branch, operator
\* confirmation, one push, hosted release creation, build trigger or last good
\* build, artifact fetch, digest and signature, distribution upload, hosted
\* asset upload; a new branch is created after the release commit and before
\* the push, and no build is triggered before the push
C31_EffectOrder ==
    (result = "returned" /\ ~rebuild) =>
        /\ \A i, j \in 1..Len(effects) : i < j => Rank(effects[i]) <= Rank(effects[j])
        /\ Count("push") = 1
        /\ HasEffect("branch_create") =>
              /\ tag_commit > 0
              /\ FirstAt("commit") < FirstAt("branch_create")
              /\ FirstAt("branch_create") < FirstAt("push")
        /\ HasEffect("build_trigger") => FirstAt("push") < FirstAt("build_trigger")

C31_Witness ==
    /\ result = "returned"
    /\ ~rebuild
    /\ HasEffect("hosted_release")
    /\ HasEffect("build_trigger")
    /\ HasEffect("sign")
    /\ HasEffect("hosted_upload")

\* C32: for each of the three projects, once the changelog is written the call
\* of the project's _commit_and_tag with (release_version, no_sign) completes
\* and tags v{version}, unless configure.ac lacks what the project reads in it;
\* and no stage fails to obtain the tag string from the project
C32_CommitAndTagCompletes ==
    /\ (HasEffect("changelog_write") /\ pc # "commit" /\ result # "AttributeError") =>
          /\ tag_commit = 1
          /\ HasEffect("tag")
          /\ head_tag = <<"v">> \o VersionStr(release_version)
    /\ result # "NotImplementedError"

\* C33: the wait for the build to be scheduled polls again after every poll
\* that is not answered, however many there were, and leaves only for the
\* progress loop, at the first poll that is answered: it never ends by a
\* timeout, and it ends when the build service answers
C33_AwaitScheduled ==
    /\ [][pc = "scheduling" =>
            \/ pc' = "scheduling" /\ polls' = polls + 1 /\ result' = "running"
            \/ pc' = "building" /\ result' = "running"]_vars
    /\ (pc = "scheduling") ~> (pc = "building")

C33_Witness ==
    /\ pc = "scheduling"
    /\ polls = MaxPolls
    /\ HasEffect("build_trigger")

\* C34: when the reuse of the last build artifacts is asked for, no job is
\* created or invoked and nothing is polled for scheduling or completion; the
\* build is the last good build of the job, its status is put to the same
\* acceptance test, and the artifact is selected against the target version
C34_ReuseSkipsBuild ==
    /\ [](reuse_last_build_artifacts =>
            /\ pc \notin {"create_job", "invoke", "scheduling", "building"}
            /\ ~HasEffect("build_trigger")
            /\ attempts = 0 /\ polls = 0
            /\ pc \notin {"generate_artifact"} => HasEffect("last_good_build")
            /\ artifact_name # <<>> =>
                  /\ Contains(VersionStr(release_version), artifact_name)
                  /\ Contains(TarMarker, artifact_name))
    /\ [][(reuse_last_build_artifacts /\ pc = "poll_status") =>
            /\ pc' = "select" <=> build_status' \in {"SUCCESS", "UNSTABLE"}
            /\ pc' # "select" => result' = "AbortedRelease"]_vars
    /\ [][(reuse_last_build_artifacts /\ pc' = "select") => pc = "poll_status"]_vars

C34_Witness ==
    /\ reuse_last_build_artifacts
    /\ result = "returned"
    /\ HasEffect("last_good_build")
    /\ HasEffect("artifact_fetch")

\* C35: the three digest files are written with the artifact, before the
\* signature and before any upload; there is a signature file only when signing
\* was asked for; the upload to the distribution location and the upload to
\* each located hosted release transfer the artifact and every file written
\* beside it, whole, and no other file
C35_ArtifactFiles ==
    /\ (HasEffect("sign") \/ HasEffect("sign_abandoned") \/ uploaded # {} \/ sent # {}) =>
          {"", ".md5", ".sha1", ".sha256"} \subseteq files
    /\ ".asc" \in files => ~no_sign
    /\ uploaded \subseteq files
    /\ \A s \in sent : s.file \in files
    /\ pc \in {"github_upload", "assets", "return"} \/ result = "returned" =>
          uploaded = files
    /\ (pc = "return" \/ result = "returned") =>
          \A i \in 1..Len(releases) : \A f \in files :
             [url |-> releases[i], file |-> f, content |-> "whole file"] \in sent

\* C36: the changelog in the notes of every hosted release the run creates has
\* the entries of the section the run wrote to ChangeLog: one for each commit
\* made between the previous tag and the release
C36_NotesListWrittenCommits ==
    \A r \in hosted_releases :
        /\ r.changelog = WrittenEntries
        /\ tag_commit > 0 => Len(commits[tag_commit]["ChangeLog"]) =
                                Len(r.changelog) + Len(OldChangeLog)

\* C37: every hosted release a run creates is flagged prerelease exactly when
\* the released version has an rc, on whatever path the version was resolved
C37_PrereleaseMatchesVersion ==
    \A r \in hosted_releases :
        r.prerelease <=> (release_version.rc # None /\ release_version.rc # 0)

C37_Witness ==
    /\ \E r \in hosted_releases : r.prerelease
    /\ release_version.rc # None
    /\ release_version.rc > 1
    /\ path = "existing"

\* C38: every series a project accepts is parsed by _version_from_series
\* without error, into a major and a minor that are non-empty runs of digits
\* and whose series() is the series given, so that the new-series target
\* renders as the series followed by ".0-rc1"
C38_AcceptedSeriesParses ==
    call = "_version_from_series" =>
        /\ ret.err = "none"
        /\ Render(ret.v.major) # <<>> /\ AllDigits(Render(ret.v.major))
        /\ Render(ret.v.minor) # <<>> /\ AllDigits(Render(ret.v.minor))
        /\ VersionSeries(ret.v) = arg
        /\ ret.s = arg \o <<".", "0", "-", "r", "c", "1">>

====
